---- MODULE Spec2Model ----
(***************************************************************************)
(* dirbuster-rs: the concurrent request engine (src/src/main.rs,           *)
(* src/src/buster.rs), the filter predicate (src/src/parser.rs) and the    *)
(* wildcard-response detector (src/src/wildcard.rs).                       *)
(*                                                                         *)
(* All worker futures are polled by the one task that runs main (they are  *)
(* combined with buffer_unordered, never spawned), so the code between two *)
(* await points of a worker is one atomic step.  Only the Ctrl+C handler   *)
(* is a spawned task; it runs concurrently with every step.                *)
(***************************************************************************)
EXTENDS Integers, Sequences, FiniteSets, TLC

(***************************************************************************)
(* Bounds of the model.                                                    *)
(***************************************************************************)
MaxWords == 2
MaxThreads == 2
MaxRetries == 2
MaxSamples == 4
MaxMerges == 3
NumThreads == 3
MaxIncrements == 3

(***************************************************************************)
(* Option<T>: None is the empty sequence, Some(v) the one-element one.     *)
(***************************************************************************)
None == <<>>
Some(v) == <<v>>
IsSome(o) == Len(o) = 1
Unwrap(o) == o[1]

Min2(a, b) == IF a <= b THEN a ELSE b
Max2(a, b) == IF a >= b THEN a ELSE b

(***************************************************************************)
(* Text helpers (Rust str methods used by the code).                       *)
(***************************************************************************)
Char(s, i) == SubSeq(s, i, i)

Contains(s, pat) ==
    \E i \in 1..(Len(s) - Len(pat) + 1) : SubSeq(s, i, i + Len(pat) - 1) = pat

IsWhitespace(c) == c \in {" ", "\n", "\t", "\r"}

WordChars ==
    {"a","b","c","d","e","f","g","h","i","j","k","l","m","n","o","p","q","r",
     "s","t","u","v","w","x","y","z","A","B","C","D","E","F","G","H","I","J",
     "K","L","M","N","O","P","Q","R","S","T","U","V","W","X","Y","Z","0","1",
     "2","3","4","5","6","7","8","9","_"}

split_whitespace_count(s) ==
    Cardinality({i \in 1..Len(s) :
        /\ ~IsWhitespace(Char(s, i))
        /\ (i = 1 \/ IsWhitespace(Char(s, i - 1)))})

lines_count(s) ==
    Cardinality({i \in 1..Len(s) : Char(s, i) = "\n"})
        + (IF Len(s) > 0 /\ Char(s, Len(s)) # "\n" THEN 1 ELSE 0)

Trim(s) ==
    LET keep == {i \in 1..Len(s) : ~IsWhitespace(Char(s, i))}
    IN  IF keep = {} THEN ""
        ELSE LET a == CHOOSE i \in keep : \A j \in keep : i <= j
                 b == CHOOSE i \in keep : \A j \in keep : i >= j
             IN  SubSeq(s, a, b)

LowerChar(c) ==
    CASE c = "T" -> "t"
      [] c = "I" -> "i"
      [] c = "L" -> "l"
      [] c = "E" -> "e"
      [] OTHER -> c

MatchesIgnoreCaseAt(s, i, pat) ==
    /\ i + Len(pat) - 1 <= Len(s)
    /\ \A k \in 1..Len(pat) : LowerChar(Char(s, i + k - 1)) = Char(pat, k)

(***************************************************************************)
(* wildcard.rs: TITLE_REGEX (?i)<title>\s*(.*?)\s*</title>, first match,   *)
(* capture group 1 trimmed.  '.' does not match a line feed.               *)
(***************************************************************************)
TitleCloseAfter(s, i) ==
    {j \in (i + 7)..Len(s) : MatchesIgnoreCaseAt(s, j, "</title>")}

TitleMatchAt(s, i) ==
    /\ MatchesIgnoreCaseAt(s, i, "<title>")
    /\ \E j \in TitleCloseAfter(s, i) :
          ~Contains(Trim(SubSeq(s, i + 7, j - 1)), "\n")

TitleCapture(s, i) ==
    LET js == {j \in TitleCloseAfter(s, i) :
                  ~Contains(Trim(SubSeq(s, i + 7, j - 1)), "\n")}
        j  == CHOOSE x \in js : \A y \in js : x <= y
    IN  Trim(SubSeq(s, i + 7, j - 1))

(***************************************************************************)
(* wildcard.rs: extract_patterns                                           *)
(***************************************************************************)
known_errors ==
    << "404 Not Found", "403 Forbidden", "500 Internal Server Error",
       "Access Denied", "Not Found", "Forbidden" >>

extract_title(html) ==
    LET starts == {i \in 1..Len(html) : TitleMatchAt(html, i)}
    IN  IF starts = {} THEN None
        ELSE Some(TitleCapture(html,
                 CHOOSE i \in starts : \A j \in starts : i <= j))

extract_error_message(html) ==
    LET hits == {k \in 1..Len(known_errors) : Contains(html, known_errors[k])}
    IN  IF hits = {} THEN None
        ELSE Some(known_errors[CHOOSE k \in hits : \A m \in hits : k <= m])

(***************************************************************************)
(* wildcard.rs: count_html_tags, HTML_TAG_REGEX </?\w+[^>]*>, counted as    *)
(* find_iter counts: leftmost matches that do not overlap.                 *)
(***************************************************************************)
TagStartsAt(s, i) ==
    /\ Char(s, i) = "<"
    /\ \/ (i + 1 <= Len(s) /\ Char(s, i + 1) \in WordChars)
       \/ (i + 2 <= Len(s) /\ Char(s, i + 1) = "/" /\ Char(s, i + 2) \in WordChars)
    /\ \E j \in (i + 2)..Len(s) : Char(s, j) = ">"

TagEnd(s, i) ==
    CHOOSE j \in (i + 2)..Len(s) :
        /\ Char(s, j) = ">"
        /\ \A k \in (i + 2)..(j - 1) : Char(s, k) # ">"

RECURSIVE CountTagsFrom(_, _)
CountTagsFrom(s, p) ==
    LET starts == {i \in p..Len(s) : TagStartsAt(s, i)}
    IN  IF starts = {} THEN 0
        ELSE LET i == CHOOSE x \in starts : \A y \in starts : x <= y
             IN  1 + CountTagsFrom(s, TagEnd(s, i) + 1)

count_html_tags(html) == CountTagsFrom(html, 1)

(***************************************************************************)
(* wildcard.rs: sha256_hex.  SHA-256 is taken as collision free: the hex   *)
(* digest of a text is represented by the text itself under a tag.         *)
(***************************************************************************)
HASH_SAMPLE_SIZE == 1024

sha256_hex(content) == "sha256:" \o content

(***************************************************************************)
(* wildcard.rs: WildcardSample::from_response (ASCII bodies: every byte    *)
(* offset is a character boundary).                                        *)
(***************************************************************************)
from_response(body, status_code, headers) ==
    LET sample == IF Len(body) > HASH_SAMPLE_SIZE
                    THEN SubSeq(body, 1, HASH_SAMPLE_SIZE)
                    ELSE body
    IN  [ size           |-> Len(body),
          sha256         |-> sha256_hex(sample),
          status_code    |-> status_code,
          title          |-> extract_title(body),
          error_message  |-> extract_error_message(body),
          headers        |-> headers,
          line_count     |-> lines_count(body),
          word_count     |-> split_whitespace_count(body),
          html_tag_count |-> count_html_tags(body) ]

(***************************************************************************)
(* wildcard.rs: WildcardProfile                                            *)
(***************************************************************************)
WildcardProfile_new ==
    [ size_ranges            |-> <<>>,
      sha256_hashes          |-> {},
      common_status_codes    |-> {},
      title_patterns         |-> {},
      error_message_patterns |-> {},
      header_patterns        |-> <<>>,
      line_count_ranges      |-> <<>>,
      word_count_ranges      |-> <<>>,
      html_tag_count_range   |-> None ]

\* (n as f64 * 0.05).ceil() and (n as f64 * 0.1).ceil(): for every n below
\* two million the f64 product rounds to the same integer as n/20 and n/10.
CeilDiv_Floor(n, d) == n \div d
CeilDiv(n, d) == (n + d - 1) \div d
saturating_sub(a, b) == IF a >= b THEN a - b ELSE 0

merge_range_Last(ranges, min, max) ==
    LET hits == {i \in 1..Len(ranges) :
                    min <= ranges[i][2] /\ ranges[i][1] <= max}
    IN  IF hits = {} THEN Append(ranges, <<min, max>>)
        ELSE LET i == CHOOSE x \in hits : \A y \in hits : x >= y
             IN  [ranges EXCEPT ![i] = << Min2(ranges[i][1], min),
                                          Max2(ranges[i][2], max) >>]

merge_range_PushSwapped(ranges, min, max) ==
    LET hits == {i \in 1..Len(ranges) :
                    min <= ranges[i][2] /\ ranges[i][1] <= max}
    IN  IF hits = {} THEN Append(ranges, <<max, min>>)
        ELSE LET i == CHOOSE x \in hits : \A y \in hits : x <= y
             IN  [ranges EXCEPT ![i] = << Min2(ranges[i][1], min),
                                          Max2(ranges[i][2], max) >>]

\* The first range that overlaps or touches (min, max) is widened; if there
\* is none, (min, max) is pushed.
merge_range(ranges, min, max) ==
    LET hits == {i \in 1..Len(ranges) :
                    min <= ranges[i][2] /\ ranges[i][1] <= max}
    IN  IF hits = {} THEN Append(ranges, <<min, max>>)
        ELSE LET i == CHOOSE x \in hits : \A y \in hits : x <= y
             IN  [ranges EXCEPT ![i] = << Min2(ranges[i][1], min),
                                          Max2(ranges[i][2], max) >>]

update_tag_count_range_Reset(range, count) == Some(<< count, count >>)

update_tag_count_range(range, count) ==
    IF IsSome(range)
      THEN Some(<< Min2(Unwrap(range)[1], count), Max2(Unwrap(range)[2], count) >>)
      ELSE Some(<< count, count >>)

merge_headers(patterns, headers) ==
    [k \in (DOMAIN patterns) \cup (DOMAIN headers) |->
        (IF k \in DOMAIN patterns THEN patterns[k] ELSE {})
            \cup (IF k \in DOMAIN headers THEN {headers[k]} ELSE {})]

add_sample_OnCopy(self, resp) == self

add_sample(self, resp) ==
    LET tol      == CeilDiv(resp.size, 20)
        min_size == saturating_sub(resp.size, tol)
        max_size == resp.size + tol
        line_tol == CeilDiv(resp.line_count, 10)
        min_line == saturating_sub(resp.line_count, line_tol)
        max_line == resp.line_count + line_tol
        word_tol == CeilDiv(resp.word_count, 10)
        min_word == saturating_sub(resp.word_count, word_tol)
        max_word == resp.word_count + word_tol
    IN  [ size_ranges            |-> merge_range(self.size_ranges, min_size, max_size),
          sha256_hashes          |-> self.sha256_hashes \cup {resp.sha256},
          common_status_codes    |-> self.common_status_codes \cup {resp.status_code},
          title_patterns         |-> IF IsSome(resp.title)
                                       THEN self.title_patterns \cup {Unwrap(resp.title)}
                                       ELSE self.title_patterns,
          error_message_patterns |-> IF IsSome(resp.error_message)
                                       THEN self.error_message_patterns
                                                \cup {Unwrap(resp.error_message)}
                                       ELSE self.error_message_patterns,
          header_patterns        |-> merge_headers(self.header_patterns, resp.headers),
          line_count_ranges      |-> merge_range(self.line_count_ranges, min_line, max_line),
          word_count_ranges      |-> merge_range(self.word_count_ranges, min_word, max_word),
          html_tag_count_range   |-> update_tag_count_range(self.html_tag_count_range,
                                                            resp.html_tag_count) ]

InAnyRange_EmptyMatchesAll(ranges, v) ==
    \/ ranges = <<>>
    \/ \E i \in 1..Len(ranges) : v >= ranges[i][1] /\ v <= ranges[i][2]

InAnyRange(ranges, v) ==
    \E i \in 1..Len(ranges) : v >= ranges[i][1] /\ v <= ranges[i][2]

is_likely_wildcard_StatusAlways(self, resp) ==
    LET B(c, n)     == IF c THEN n ELSE 0
        title_match == IsSome(resp.title) /\ Unwrap(resp.title) \in self.title_patterns
        err_match   == /\ IsSome(resp.error_message)
                       /\ Unwrap(resp.error_message) \in self.error_message_patterns
        size_match  == InAnyRange(self.size_ranges, resp.size)
        line_match  == InAnyRange(self.line_count_ranges, resp.line_count)
        word_match  == InAnyRange(self.word_count_ranges, resp.word_count)
        tag_match   == /\ IsSome(self.html_tag_count_range)
                       /\ resp.html_tag_count >= Unwrap(self.html_tag_count_range)[1]
                       /\ resp.html_tag_count <= Unwrap(self.html_tag_count_range)[2]
        match_count == B(title_match, 1) + B(err_match, 1) + B(size_match, 1)
                         + B(line_match, 1) + B(word_match, 1) + B(tag_match, 1)
        confidence  == B(resp.sha256 \in self.sha256_hashes, 9)
                         + B(title_match, 7) + B(err_match, 8)
                         + B(size_match, 3) + B(line_match, 2) + B(word_match, 2)
                         + B(tag_match, 2)
                         + B(resp.status_code \in self.common_status_codes, 6)
    IN  IF resp.status_code = 200
          THEN confidence >= 7 \/ (match_count >= 3 /\ confidence >= 5)
          ELSE confidence >= 5 \/ match_count >= 2

is_likely_wildcard_StatusBonusSmall(self, resp) ==
    LET B(c, n)     == IF c THEN n ELSE 0
        title_match == IsSome(resp.title) /\ Unwrap(resp.title) \in self.title_patterns
        err_match   == /\ IsSome(resp.error_message)
                       /\ Unwrap(resp.error_message) \in self.error_message_patterns
        size_match  == InAnyRange(self.size_ranges, resp.size)
        line_match  == InAnyRange(self.line_count_ranges, resp.line_count)
        word_match  == InAnyRange(self.word_count_ranges, resp.word_count)
        tag_match   == /\ IsSome(self.html_tag_count_range)
                       /\ resp.html_tag_count >= Unwrap(self.html_tag_count_range)[1]
                       /\ resp.html_tag_count <= Unwrap(self.html_tag_count_range)[2]
        match_count == B(title_match, 1) + B(err_match, 1) + B(size_match, 1)
                         + B(line_match, 1) + B(word_match, 1) + B(tag_match, 1)
        confidence  == B(resp.sha256 \in self.sha256_hashes, 9)
                         + B(title_match, 7) + B(err_match, 8)
                         + B(size_match, 3) + B(line_match, 2) + B(word_match, 2)
                         + B(tag_match, 2)
    IN  IF resp.status_code = 200
          THEN confidence >= 7 \/ (match_count >= 3 /\ confidence >= 5)
          ELSE LET c2 == confidence
                           + B(resp.status_code \in self.common_status_codes, 4)
               IN  c2 >= 5 \/ match_count >= 2

\* confidence is kept in tenths (0.9 is 9).  For every one of the 2^8
\* combinations of the eight bumps the f64 sum compares with 0.5 and with 0.7
\* as the sum of tenths compares with 5 and with 7.
is_likely_wildcard(self, resp) ==
    LET hash_match  == resp.sha256 \in self.sha256_hashes
        title_match == IsSome(resp.title) /\ Unwrap(resp.title) \in self.title_patterns
        err_match   == /\ IsSome(resp.error_message)
                       /\ Unwrap(resp.error_message) \in self.error_message_patterns
        size_match  == InAnyRange(self.size_ranges, resp.size)
        line_match  == InAnyRange(self.line_count_ranges, resp.line_count)
        word_match  == InAnyRange(self.word_count_ranges, resp.word_count)
        tag_match   == /\ IsSome(self.html_tag_count_range)
                       /\ resp.html_tag_count >= Unwrap(self.html_tag_count_range)[1]
                       /\ resp.html_tag_count <= Unwrap(self.html_tag_count_range)[2]
        B(c, n)     == IF c THEN n ELSE 0
        match_count == B(title_match, 1) + B(err_match, 1) + B(size_match, 1)
                         + B(line_match, 1) + B(word_match, 1) + B(tag_match, 1)
        confidence  == B(hash_match, 9) + B(title_match, 7) + B(err_match, 8)
                         + B(size_match, 3) + B(line_match, 2) + B(word_match, 2)
                         + B(tag_match, 2)
    IN  IF resp.status_code = 200
          THEN confidence >= 7 \/ (match_count >= 3 /\ confidence >= 5)
          ELSE LET c2 == confidence
                           + B(resp.status_code \in self.common_status_codes, 6)
               IN  c2 >= 5 \/ match_count >= 2

(***************************************************************************)
(* parser.rs: should_filter_response                                       *)
(***************************************************************************)
should_filter_response_MissingAsZero(response, cfg) ==
    LET content_length == IF IsSome(response.content_length)
                            THEN Unwrap(response.content_length) ELSE 0
        word_count     == IF IsSome(response.word_count)
                            THEN Unwrap(response.word_count) ELSE 0
    IN  \/ response.status \in cfg.filter_codes
        \/ /\ IsSome(cfg.filter_size)
           /\ \/ content_length < Unwrap(cfg.filter_size)[1]
              \/ content_length > Unwrap(cfg.filter_size)[2]
        \/ /\ IsSome(cfg.filter_time)
           /\ response.response_time > Unwrap(cfg.filter_time)
        \/ /\ IsSome(cfg.filter_words)
           /\ \/ word_count < Unwrap(cfg.filter_words)[1]
              \/ word_count > Unwrap(cfg.filter_words)[2]

should_filter_response(response, cfg) ==
    \/ response.status \in cfg.filter_codes
    \/ /\ IsSome(response.content_length) /\ IsSome(cfg.filter_size)
       /\ \/ Unwrap(response.content_length) < Unwrap(cfg.filter_size)[1]
          \/ Unwrap(response.content_length) > Unwrap(cfg.filter_size)[2]
    \/ /\ IsSome(cfg.filter_time)
       /\ response.response_time > Unwrap(cfg.filter_time)
    \/ /\ IsSome(response.word_count) /\ IsSome(cfg.filter_words)
       /\ \/ Unwrap(response.word_count) < Unwrap(cfg.filter_words)[1]
          \/ Unwrap(response.word_count) > Unwrap(cfg.filter_words)[2]

(***************************************************************************)
(* Inputs of the scan: configurations, server responses and transport      *)
(* failures the environment may produce.                                   *)
(***************************************************************************)
Configs ==
    { \* full concurrency and retries, no filter, no delay
      [ retries |-> MaxRetries, threads |-> MaxThreads,
        delay_min |-> 0, delay_max |-> 0, filter_codes |-> {},
        filter_size |-> None, filter_time |-> None, filter_words |-> None,
        show_content_length |-> FALSE, detect_wildcards |-> FALSE,
        only_success |-> FALSE, show_response_time |-> FALSE,
        output_file |-> Some("out.txt"), output_format |-> "text" ],
      \* filters and wildcard detection, one retry
      [ retries |-> 1, threads |-> MaxThreads,
        delay_min |-> 0, delay_max |-> 0, filter_codes |-> {503},
        filter_size |-> Some(<<5, 500>>), filter_time |-> None,
        filter_words |-> Some(<<1, 100>>),
        show_content_length |-> FALSE, detect_wildcards |-> TRUE,
        only_success |-> TRUE, show_response_time |-> TRUE,
        output_file |-> Some("out.txt"), output_format |-> "text" ],
      \* one request at a time, a delay window, a response time filter
      [ retries |-> MaxRetries, threads |-> 1,
        delay_min |-> 0, delay_max |-> 1, filter_codes |-> {},
        filter_size |-> None, filter_time |-> Some(100), filter_words |-> None,
        show_content_length |-> TRUE, detect_wildcards |-> TRUE,
        only_success |-> FALSE, show_response_time |-> FALSE,
        output_file |-> Some("out.json"), output_format |-> "json" ],
      \* --threads 0 --retries 0
      [ retries |-> 0, threads |-> 0,
        delay_min |-> 0, delay_max |-> 0, filter_codes |-> {},
        filter_size |-> None, filter_time |-> None, filter_words |-> None,
        show_content_length |-> FALSE, detect_wildcards |-> FALSE,
        only_success |-> FALSE, show_response_time |-> FALSE,
        output_file |-> None, output_format |-> "text" ] }

HtmlHeaders == [ct |-> "text/html"]

SoftNotFoundBody == "<title>Not Found</title>\nNot Found"

\* status, content-length header, elapsed ms when send() returns and when the
\* body has been read, the body, the headers
Responses ==
    { [ status |-> 200, content_length |-> Some(34), t_headers |-> 40,
        t_body |-> 60, body |-> SoftNotFoundBody, headers |-> HtmlHeaders ],
      [ status |-> 404, content_length |-> Some(34), t_headers |-> 40,
        t_body |-> 60, body |-> SoftNotFoundBody, headers |-> HtmlHeaders ],
      [ status |-> 429, content_length |-> Some(0), t_headers |-> 40,
        t_body |-> 60, body |-> "", headers |-> HtmlHeaders ],
      [ status |-> 503, content_length |-> None, t_headers |-> 120,
        t_body |-> 150, body |-> "", headers |-> HtmlHeaders ] }

\* what the target answers for a path that does not exist
ProbeResponses == { r \in Responses : r.status = 200 }

FailureMessages == { "tcp connection reset", "operation timed out" }

JitterValues == {0, 99}

test_paths ==
    << "does_not_exist_12345", "nonexistent_wildcard_test",
       "zzzzzzzzzzzzzzzzzzzz", "wildcard_probe_path" >>

(***************************************************************************)
(* buster.rs: BustResult and DetailedResponse                              *)
(***************************************************************************)
DetailedResponse(word, status, content_length, response_time, word_count) ==
    [ word |-> word, status |-> status, content_length |-> content_length,
      response_time |-> response_time, word_count |-> word_count ]

Success(resp)  == [kind |-> "Success",  word |-> resp.word, detail |-> Some(resp), msg |-> ""]
NotFound(resp) == [kind |-> "NotFound", word |-> resp.word, detail |-> Some(resp), msg |-> ""]
Filtered(resp) == [kind |-> "Filtered", word |-> resp.word, detail |-> Some(resp), msg |-> ""]
Error(word, m) == [kind |-> "Error",    word |-> word,      detail |-> None,       msg |-> m]

\* not a BustResult: the loop goes on (continue)
Retry(word)    == [kind |-> "Retry",    word |-> word,      detail |-> None,       msg |-> ""]

(***************************************************************************)
(* buster.rs: the decisions of bust_url_with_retry                         *)
(***************************************************************************)
RATE_LIMIT_STEP == 500

Is2xx(status) == status >= 200 /\ status <= 299
Is5xx(status) == status >= 500 /\ status <= 599

\* for attempt in 0..=config.retries
LastAttempt(retries) == retries

\* attempt < config.retries
AttemptsRemain_Inclusive(att, retries) == att <= retries
AttemptsRemain(att, retries) == att < retries

\* the loop variable of the next iteration
NextAttempt_Stuck(att) == att
NextAttempt_Skip(att) == att + 2
NextAttempt(att) == att + 1

\* state.should_stop.load(), first statement of every iteration
StopRequested_FirstAttemptOnly(stop, att) == stop /\ att = 0
StopRequested(stop, att) == stop

RateLimitBackoff_FromZero(att) == 1000 * att
RateLimitBackoff(att) == 1000 * (att + 1)

ServerErrorBackoff_AsRateLimit(att) == 1000 * (att + 1)
ServerErrorBackoff(att) == 500 * (att + 1)

TransportBackoff(att) == 1000 * (att + 1)

IsRetryableError(error_msg) ==
    \/ Contains(error_msg, "timeout")
    \/ Contains(error_msg, "connection")
    \/ Contains(error_msg, "dns")

\* the delay drawn before a request
DelayChoices(cfg) ==
    IF cfg.delay_max > cfg.delay_min
      THEN cfg.delay_min..cfg.delay_max
      ELSE {cfg.delay_min}

\* if sleep_base > 0: the sleep before the request is due
SleepDue_Always(sleep_base) == sleep_base >= 0
SleepDue(sleep_base) == sleep_base > 0

\* config.show_content_length || config.filter_words.is_some()
WordCountOf_OnlyWithLength(text, cfg) ==
    IF cfg.show_content_length
      THEN Some(split_whitespace_count(text))
      ELSE None

WordCountOf(text, cfg) ==
    IF cfg.show_content_length \/ IsSome(cfg.filter_words)
      THEN Some(split_whitespace_count(text))
      ELSE None

\* global_delay after a response of the given status was classified
GlobalDelayAfter_NoReset(status, gd) ==
    IF status = 429 THEN gd + RATE_LIMIT_STEP ELSE gd

GlobalDelayAfter_Store(status, gd) ==
    IF Is2xx(status) THEN 0
    ELSE IF status = 429 THEN RATE_LIMIT_STEP
    ELSE gd

GlobalDelayAfter_On5xx(status, gd) ==
    IF Is2xx(status) THEN 0
    ELSE IF status = 429 \/ Is5xx(status) THEN gd + RATE_LIMIT_STEP
    ELSE gd

GlobalDelayAfter(status, gd) ==
    IF Is2xx(status) THEN 0
    ELSE IF status = 429 THEN gd + RATE_LIMIT_STEP
    ELSE gd

\* the result of a response that ends the loop
FilteredOrNotFound_AsError(detail, cfg) ==
    IF should_filter_response(detail, cfg)
      THEN Filtered(detail) ELSE Error(detail.word, "HTTP error")

FilteredOrNotFound(detail, cfg) ==
    IF should_filter_response(detail, cfg) THEN Filtered(detail) ELSE NotFound(detail)

Classify2xx_NoWildcard(detail, text, headers, cfg, profile) ==
    IF should_filter_response(detail, cfg) THEN Filtered(detail) ELSE Success(detail)

Classify2xx(detail, text, headers, cfg, profile) ==
    IF should_filter_response(detail, cfg) THEN Filtered(detail)
    ELSE IF /\ cfg.detect_wildcards
            /\ is_likely_wildcard(profile, from_response(text, detail.status, headers))
      THEN Filtered(detail)
    ELSE Success(detail)

ClassifyResponse_RetryOther(att, detail, text, headers, cfg, profile) ==
    IF Is2xx(detail.status)
      THEN Classify2xx(detail, text, headers, cfg, profile)
    ELSE IF detail.status = 429
      THEN IF AttemptsRemain(att, cfg.retries)
             THEN Retry(detail.word) ELSE Error(detail.word, "Rate limited")
    ELSE IF AttemptsRemain(att, cfg.retries)
      THEN Retry(detail.word)
    ELSE FilteredOrNotFound(detail, cfg)

ClassifyResponse_WildcardAnyStatus(att, detail, text, headers, cfg, profile) ==
    IF Is2xx(detail.status)
      THEN Classify2xx(detail, text, headers, cfg, profile)
    ELSE IF detail.status = 429
      THEN IF AttemptsRemain(att, cfg.retries)
             THEN Retry(detail.word) ELSE Error(detail.word, "Rate limited")
    ELSE IF Is5xx(detail.status) /\ AttemptsRemain(att, cfg.retries)
      THEN Retry(detail.word)
    ELSE IF should_filter_response(detail, cfg) THEN Filtered(detail)
    ELSE IF /\ cfg.detect_wildcards
            /\ is_likely_wildcard(profile, from_response(text, detail.status, headers))
      THEN Filtered(detail)
    ELSE NotFound(detail)

\* Retry or the result returned for a response with the given status
ClassifyResponse(att, detail, text, headers, cfg, profile) ==
    IF Is2xx(detail.status)
      THEN Classify2xx(detail, text, headers, cfg, profile)
    ELSE IF detail.status = 429
      THEN IF AttemptsRemain(att, cfg.retries)
             THEN Retry(detail.word) ELSE Error(detail.word, "Rate limited")
    ELSE IF Is5xx(detail.status)
      THEN IF AttemptsRemain(att, cfg.retries)
             THEN Retry(detail.word) ELSE FilteredOrNotFound(detail, cfg)
    ELSE FilteredOrNotFound(detail, cfg)

BackoffAfterStatus(status, att) ==
    IF status = 429 THEN RateLimitBackoff(att) ELSE ServerErrorBackoff(att)

ClassifyFailure_RetryAny(att, word, error_msg, cfg) ==
    IF AttemptsRemain(att, cfg.retries) THEN Retry(word) ELSE Error(word, error_msg)

ClassifyFailure(att, word, error_msg, cfg) ==
    IF IsRetryableError(error_msg) /\ AttemptsRemain(att, cfg.retries)
      THEN Retry(word) ELSE Error(word, error_msg)

(***************************************************************************)
(* State                                                                   *)
(***************************************************************************)
VARIABLES
    config,            \* ScanConfig and the command line (threads, only_success)
    wl_len,            \* number of words; word i is the i-th line of the list
    pc_main,           \* "probe", "scan", "summary": where main is
    probe_idx,         \* index into test_paths of the next probe
    wildcard_profile,  \* ScanState.wildcard_profile
    global_delay,      \* ScanState.global_delay
    found_count,       \* ScanState.found_count
    error_count,       \* ScanState.error_count
    filtered_count,    \* ScanState.filtered_count
    should_stop,       \* ScanState.should_stop
    permits,           \* free permits of the semaphore
    results_lock,      \* 0 or the worker that holds the all_results mutex
    all_results,       \* the results vector
    next_word,         \* position of word_stream
    console,           \* lines printed by the for_each closure
    summary,           \* the counters read for the summary
    pc,                \* per worker: where its future is suspended
    holds_permit,      \* per worker: _permit is alive
    attempt,           \* per worker: loop variable
    extra_backoff,     \* per worker: global_delay read by the current attempt
    sleep_ms,          \* per worker: duration of the sleep it is in
    response,          \* per worker: response whose body is being read
    result,            \* per worker: value returned by bust_url_with_retry
    sent,              \* per worker: requests sent so far (history)
    rl_streak,         \* per worker: 429 responses in a row (history)
    rl_base,           \* per worker: global_delay before the first of them
    rl_reset,          \* per worker: a 2xx reset global_delay since then
    last_error,        \* per worker: e.to_string() of the failed send (history)
    rl_since_2xx,      \* 429 responses matched since the last 2xx was (history)
    text_content,      \* what save_results wrote to the output file, if it ran
    wildcard_verdict,  \* the last call of is_likely_wildcard: sample and value
    filter_verdict     \* the last call of should_filter_response: inputs and value

vars == << config, wl_len, pc_main, probe_idx, wildcard_profile, global_delay,
           found_count, error_count, filtered_count, should_stop, permits,
           results_lock, all_results, next_word, console, summary, pc,
           holds_permit, attempt, extra_backoff, sleep_ms, response, result,
           sent, rl_streak, rl_base, rl_reset, last_error, rl_since_2xx,
           text_content, wildcard_verdict, filter_verdict >>

verdict_vars == << wildcard_verdict, filter_verdict >>

driver_vars == << config, wl_len, pc_main, probe_idx, wildcard_profile,
                  next_word, summary >>
counter_vars == << found_count, error_count, filtered_count >>
output_vars == << all_results, console, results_lock >>
history_vars == << rl_streak, rl_base, rl_reset, last_error, rl_since_2xx >>

Words == 1..wl_len

(***************************************************************************)
(* main.rs: main up to the start of the probes.  An empty word list makes  *)
(* main return before anything is set up, so there is at least one word.   *)
(***************************************************************************)
Init ==
    /\ config \in Configs
    /\ wl_len = MaxWords
    /\ pc_main = "probe"
    /\ probe_idx = 1
    /\ wildcard_profile = WildcardProfile_new
    /\ global_delay = 0
    /\ found_count = 0
    /\ error_count = 0
    /\ filtered_count = 0
    /\ should_stop = FALSE
    /\ permits = config.threads
    /\ results_lock = 0
    /\ all_results = <<>>
    /\ next_word = 1
    /\ console = <<>>
    /\ summary = None
    /\ pc = [w \in Words |-> "queued"]
    /\ holds_permit = [w \in Words |-> FALSE]
    /\ attempt = [w \in Words |-> 0]
    /\ extra_backoff = [w \in Words |-> 0]
    /\ sleep_ms = [w \in Words |-> 0]
    /\ response = [w \in Words |-> None]
    /\ result = [w \in Words |-> None]
    /\ sent = [w \in Words |-> 0]
    /\ rl_streak = [w \in Words |-> 0]
    /\ rl_base = [w \in Words |-> 0]
    /\ rl_reset = [w \in Words |-> FALSE]
    /\ last_error = [w \in Words |-> None]
    /\ rl_since_2xx = 0
    /\ text_content = None
    /\ wildcard_verdict = None
    /\ filter_verdict = None

(***************************************************************************)
(* wildcard.rs: build_wildcard_profile, one iteration of the loop over     *)
(* test_paths: the request fails, the body cannot be read, or the sample   *)
(* of the response is added.                                               *)
(***************************************************************************)
Probe_StopsOnFailure ==
    /\ probe_idx <= Len(test_paths)
    /\ \/ /\ UNCHANGED wildcard_profile
          /\ probe_idx' = Len(test_paths) + 1
       \/ /\ \E r \in ProbeResponses :
                wildcard_profile' =
                    add_sample(wildcard_profile,
                               from_response(r.body, r.status, r.headers))
          /\ probe_idx' = probe_idx + 1
    /\ UNCHANGED << config, wl_len, pc_main, next_word, summary, global_delay,
                    should_stop, permits, pc, holds_permit, attempt,
                    extra_backoff, sleep_ms, response, result, sent >>
    /\ UNCHANGED << counter_vars, output_vars, history_vars >>
    /\ UNCHANGED << text_content, verdict_vars >>

Probe ==
    /\ probe_idx <= Len(test_paths)
    /\ \/ UNCHANGED wildcard_profile
       \/ \E r \in ProbeResponses :
             wildcard_profile' =
                 add_sample(wildcard_profile,
                            from_response(r.body, r.status, r.headers))
    /\ probe_idx' = probe_idx + 1
    /\ UNCHANGED << config, wl_len, pc_main, next_word, summary, global_delay,
                    should_stop, permits, pc, holds_permit, attempt,
                    extra_backoff, sleep_ms, response, result, sent >>
    /\ UNCHANGED << counter_vars, output_vars, history_vars >>
    /\ UNCHANGED << text_content, verdict_vars >>

\* main.rs: build_wildcard_profile(&client, &config).await is over when the
\* loop over test_paths is
ProfileBuilt_NotAwaited(idx) == TRUE
ProfileBuilt(idx) == idx > Len(test_paths)

\* main.rs: the profile is moved into ScanState, the Ctrl+C task is spawned
StartScan ==
    /\ pc_main = "probe"
    /\ ProfileBuilt(probe_idx)
    /\ pc_main' = "scan"
    /\ UNCHANGED << config, wl_len, probe_idx, wildcard_profile, next_word,
                    summary, global_delay, should_stop, permits, pc,
                    holds_permit, attempt, extra_backoff, sleep_ms, response,
                    result, sent >>
    /\ UNCHANGED << counter_vars, output_vars, history_vars >>
    /\ UNCHANGED << text_content, verdict_vars >>

\* main.rs: the spawned task stores should_stop when the signal arrives
CtrlC ==
    /\ pc_main \in {"scan", "summary"}
    /\ ~should_stop
    /\ should_stop' = TRUE
    /\ UNCHANGED << driver_vars, global_delay, permits, pc, holds_permit,
                    attempt, extra_backoff, sleep_ms, response, result, sent >>
    /\ UNCHANGED << counter_vars, output_vars, history_vars >>
    /\ UNCHANGED << text_content, verdict_vars >>

(***************************************************************************)
(* main.rs: buffer_unordered(threads) takes the next future from           *)
(* word_stream while fewer than threads futures are in progress.           *)
(***************************************************************************)
InProgress == {w \in Words : pc[w] \notin {"queued", "done"}}

CanDispatch_OneMore ==
    /\ pc_main = "scan"
    /\ next_word <= wl_len
    /\ Cardinality(InProgress) < config.threads + 1

CanDispatch ==
    /\ pc_main = "scan"
    /\ next_word <= wl_len
    /\ Cardinality(InProgress) < config.threads

Dispatch ==
    /\ CanDispatch
    /\ pc' = [pc EXCEPT ![next_word] = "acquire"]
    /\ next_word' = next_word + 1
    /\ UNCHANGED << config, wl_len, pc_main, probe_idx, wildcard_profile,
                    summary, global_delay, should_stop, permits, holds_permit,
                    attempt, extra_backoff, sleep_ms, response, result, sent >>
    /\ UNCHANGED << counter_vars, output_vars, history_vars >>
    /\ UNCHANGED << text_content, verdict_vars >>

\* the futures in progress are polled once the buffer has been filled
Polled(w) ==
    /\ pc_main = "scan"
    /\ w \in Words
    /\ ~CanDispatch

(***************************************************************************)
(* buster.rs: bust_url_with_retry                                          *)
(***************************************************************************)
Return_CheckedAtReturn(w, r) ==
    /\ pc' = [pc EXCEPT ![w] = "returned"]
    /\ result' = [result EXCEPT ![w] =
                     Some(IF should_stop
                            THEN Error(w, "Scan stopped by user") ELSE r)]

Return(w, r) ==
    /\ pc' = [pc EXCEPT ![w] = "returned"]
    /\ result' = [result EXCEPT ![w] = Some(r)]

\* The head of the loop body for attempt att: the should_stop check, the
\* delay, and the request when no sleep is due.  After the last attempt the
\* loop ends.
BeginAttempt(w, att) ==
    IF att > LastAttempt(config.retries)
      THEN /\ Return(w, Error(w, "Max retries exceeded"))
           /\ UNCHANGED << attempt, extra_backoff, sleep_ms, sent >>
    ELSE IF StopRequested(should_stop, att)
      THEN /\ Return(w, Error(w, "Scan stopped by user"))
           /\ attempt' = [attempt EXCEPT ![w] = att]
           /\ sleep_ms' = [sleep_ms EXCEPT ![w] = 0]
           /\ UNCHANGED << extra_backoff, sent >>
    ELSE \E delay \in DelayChoices(config), jitter \in JitterValues :
           LET sleep_base == delay + global_delay
           IN  /\ attempt' = [attempt EXCEPT ![w] = att]
               /\ extra_backoff' = [extra_backoff EXCEPT ![w] = global_delay]
               /\ UNCHANGED result
               /\ IF SleepDue(sleep_base)
                    THEN /\ pc' = [pc EXCEPT ![w] = "pre_sleep"]
                         /\ sleep_ms' = [sleep_ms EXCEPT ![w] = sleep_base + jitter]
                         /\ UNCHANGED sent
                    ELSE /\ pc' = [pc EXCEPT ![w] = "in_flight"]
                         /\ sleep_ms' = [sleep_ms EXCEPT ![w] = 0]
                         /\ sent' = [sent EXCEPT ![w] = @ + 1]

\* let _permit = ...: the permit lives until the end of the future
BindPermit_DroppedAtOnce(holds, w) == holds
BindPermit(holds, w) == [holds EXCEPT ![w] = TRUE]

\* main.rs: sem.acquire().await, then the call of bust_url_with_retry
Acquire(w) ==
    /\ Polled(w)
    /\ pc[w] = "acquire"
    /\ permits > 0
    /\ holds_permit' = BindPermit(holds_permit, w)
    /\ permits' = IF holds_permit'[w] THEN permits - 1 ELSE permits
    /\ BeginAttempt(w, 0)
    /\ UNCHANGED << driver_vars, global_delay, should_stop, response >>
    /\ UNCHANGED << counter_vars, output_vars, history_vars >>
    /\ UNCHANGED << text_content, verdict_vars >>

\* the sleep before the request is over: the request is built and sent
SendAfterSleep(w) ==
    /\ Polled(w)
    /\ pc[w] = "pre_sleep"
    /\ pc' = [pc EXCEPT ![w] = "in_flight"]
    /\ sleep_ms' = [sleep_ms EXCEPT ![w] = 0]
    /\ sent' = [sent EXCEPT ![w] = @ + 1]
    /\ UNCHANGED << driver_vars, global_delay, should_stop, permits,
                    holds_permit, attempt, extra_backoff, response, result >>
    /\ UNCHANGED << counter_vars, output_vars, history_vars >>
    /\ UNCHANGED << text_content, verdict_vars >>

\* request.send().await returns Ok(response): status, headers and content
\* length are taken and response_time is start_time.elapsed(); t_body is
\* the time at which the read of the body will end, request the number of
\* the request of this word that the response answers
ReceiveResponse(w) ==
    /\ Polled(w)
    /\ pc[w] = "in_flight"
    /\ \E r \in Responses :
          response' = [response EXCEPT ![w] =
                          Some([ status         |-> r.status,
                                 headers        |-> r.headers,
                                 content_length |-> r.content_length,
                                 response_time  |-> r.t_headers,
                                 body           |-> r.body,
                                 t_body         |-> r.t_body,
                                 request        |-> sent[w] ])]
    /\ pc' = [pc EXCEPT ![w] = "body"]
    /\ extra_backoff' = [extra_backoff EXCEPT ![w] = 0]
    /\ UNCHANGED << driver_vars, global_delay, should_stop, permits,
                    holds_permit, attempt, sleep_ms, result, sent >>
    /\ UNCHANGED << counter_vars, output_vars, history_vars >>
    /\ UNCHANGED << text_content, verdict_vars >>

\* request.send().await returns Err(e)
ReceiveFailure(w) ==
    /\ Polled(w)
    /\ pc[w] = "in_flight"
    /\ \E error_msg \in FailureMessages :
          LET c == ClassifyFailure(attempt[w], w, error_msg, config)
          IN  IF c.kind = "Retry"
                THEN /\ pc' = [pc EXCEPT ![w] = "backoff"]
                     /\ sleep_ms' = [sleep_ms EXCEPT ![w] = TransportBackoff(attempt[w])]
                     /\ UNCHANGED result
                     /\ last_error' = [last_error EXCEPT ![w] = Some(error_msg)]
                ELSE /\ Return(w, c)
                     /\ UNCHANGED sleep_ms
                     /\ last_error' = [last_error EXCEPT ![w] = Some(error_msg)]
    /\ rl_streak' = [rl_streak EXCEPT ![w] = 0]
    /\ rl_base' = [rl_base EXCEPT ![w] = 0]
    /\ rl_reset' = [rl_reset EXCEPT ![w] = FALSE]
    /\ extra_backoff' = [extra_backoff EXCEPT ![w] = 0]
    /\ UNCHANGED << driver_vars, global_delay, should_stop, permits,
                    holds_permit, attempt, response, sent, rl_since_2xx >>
    /\ UNCHANGED << counter_vars, output_vars >>
    /\ UNCHANGED << text_content, verdict_vars >>

\* response.text().await.unwrap_or_default() is over: the word count, the
\* DetailedResponse and the match on the status
ReadBody(w) ==
    /\ Polled(w)
    /\ pc[w] = "body"
    /\ \E body_ok \in BOOLEAN :
          LET r      == Unwrap(response[w])
              text   == IF body_ok THEN r.body ELSE ""
              detail == DetailedResponse(w, r.status, r.content_length,
                                         r.response_time, WordCountOf(text, config))
              c      == ClassifyResponse(attempt[w], detail, text, r.headers,
                                         config, wildcard_profile)
          IN  /\ global_delay' = GlobalDelayAfter(r.status, global_delay)
              /\ rl_since_2xx' = IF Is2xx(r.status) THEN 0
                                 ELSE IF r.status = 429 THEN rl_since_2xx + 1
                                 ELSE rl_since_2xx
              /\ IF c.kind = "Retry"
                   THEN /\ pc' = [pc EXCEPT ![w] = "backoff"]
                        /\ sleep_ms' = [sleep_ms EXCEPT ![w] =
                                           BackoffAfterStatus(r.status, attempt[w])]
                        /\ UNCHANGED result
                   ELSE /\ Return(w, c)
                        /\ UNCHANGED sleep_ms
              /\ IF r.status = 429
                   THEN /\ rl_streak' = [rl_streak EXCEPT ![w] = @ + 1]
                        /\ rl_base' = [rl_base EXCEPT ![w] =
                                          IF rl_streak[w] = 0 THEN global_delay ELSE @]
                        /\ UNCHANGED rl_reset
                   ELSE /\ rl_streak' = [rl_streak EXCEPT ![w] = 0]
                        /\ rl_base' = [rl_base EXCEPT ![w] = 0]
                        /\ rl_reset' = [v \in Words |->
                               IF v = w THEN FALSE
                               ELSE IF Is2xx(r.status) /\ rl_streak[v] > 0 THEN TRUE
                               ELSE rl_reset[v]]
    /\ response' = [response EXCEPT ![w] = None]
    /\ last_error' = [last_error EXCEPT ![w] = None]
    /\ UNCHANGED << driver_vars, should_stop, permits, holds_permit, attempt,
                    extra_backoff, sent >>
    /\ UNCHANGED << counter_vars, output_vars >>
    /\ UNCHANGED << text_content, verdict_vars >>

\* the sleep after a retried attempt is over: continue
RetryAfterBackoff(w) ==
    /\ Polled(w)
    /\ pc[w] = "backoff"
    /\ BeginAttempt(w, NextAttempt(attempt[w]))
    /\ UNCHANGED << driver_vars, global_delay, should_stop, permits,
                    holds_permit, response >>
    /\ UNCHANGED << counter_vars, output_vars, history_vars >>
    /\ UNCHANGED << text_content, verdict_vars >>

(***************************************************************************)
(* main.rs: the rest of the worker future and the for_each closure         *)
(***************************************************************************)
\* all_results_clone.lock().await
LockResults(w) ==
    /\ Polled(w)
    /\ pc[w] = "returned"
    /\ results_lock = 0
    /\ results_lock' = w
    /\ pc' = [pc EXCEPT ![w] = "locked"]
    /\ UNCHANGED << driver_vars, global_delay, should_stop, permits,
                    holds_permit, attempt, extra_backoff, sleep_ms, response,
                    result, sent, all_results, console >>
    /\ UNCHANGED << counter_vars, history_vars >>
    /\ UNCHANGED << text_content, verdict_vars >>

Emitted_All(r, cfg) == r.kind # "Filtered"

\* the console line of the for_each closure, if any
Emitted(r, cfg) ==
    \/ r.kind = "Success"
    \/ r.kind \in {"NotFound", "Error"} /\ ~cfg.only_success

\* the match on the result that updates the counters
FoundAfter_Twice(r, n) == IF r.kind = "Success" THEN n + 2 ELSE n
FoundAfter(r, n) == IF r.kind = "Success" THEN n + 1 ELSE n

ErrorsAfter_WithNotFound(r, n) == IF r.kind \in {"Error", "NotFound"} THEN n + 1 ELSE n
ErrorsAfter(r, n) == IF r.kind = "Error" THEN n + 1 ELSE n

FilteredAfter_NotCounted(r, n) == n
FilteredAfter(r, n) == IF r.kind = "Filtered" THEN n + 1 ELSE n

\* The counter of the result is incremented and the result pushed; the
\* future ends, which drops the guard and the permit; the for_each closure
\* prints the line of the result.
RecordResult(w) ==
    /\ Polled(w)
    /\ pc[w] = "locked"
    /\ LET r == Unwrap(result[w])
       IN  /\ found_count' = FoundAfter(r, found_count)
           /\ error_count' = ErrorsAfter(r, error_count)
           /\ filtered_count' = FilteredAfter(r, filtered_count)
           /\ all_results' = Append(all_results, r)
           /\ console' = IF Emitted(r, config) THEN Append(console, r) ELSE console
    /\ results_lock' = 0
    /\ permits' = IF holds_permit[w] THEN permits + 1 ELSE permits
    /\ holds_permit' = [holds_permit EXCEPT ![w] = FALSE]
    /\ pc' = [pc EXCEPT ![w] = "done"]
    /\ attempt' = [attempt EXCEPT ![w] = 0]
    /\ result' = [result EXCEPT ![w] = None]
    /\ UNCHANGED << driver_vars, global_delay, should_stop,
                    extra_backoff, sleep_ms, response, sent >>
    /\ UNCHANGED history_vars
    /\ UNCHANGED << text_content, verdict_vars >>

\* the stream is exhausted: the counters are loaded for the summary
Summary ==
    /\ pc_main = "scan"
    /\ next_word > wl_len
    /\ InProgress = {}
    /\ pc_main' = "summary"
    /\ summary' = Some([ final_found    |-> found_count,
                         final_errors   |-> error_count,
                         final_filtered |-> filtered_count ])
    /\ UNCHANGED << config, wl_len, probe_idx, wildcard_profile, next_word,
                    global_delay, should_stop, permits, pc, holds_permit,
                    attempt, extra_backoff, sleep_ms, response, result, sent >>
    /\ UNCHANGED << counter_vars, output_vars, history_vars >>
    /\ UNCHANGED << text_content, verdict_vars >>

(***************************************************************************)
(* output.rs: format_output.  A line is kept as its parts, without the     *)
(* colours: the word, the status, the optional [nB] and [n ms] parts and   *)
(* the closing mark ("ok" stands for the check mark).                      *)
(***************************************************************************)
format_output(r, cfg) ==
    CASE r.kind = "Success" ->
           LET resp == Unwrap(r.detail)
           IN  [ word   |-> resp.word, status |-> Some(resp.status),
                 length |-> IF cfg.show_content_length
                              THEN resp.content_length ELSE None,
                 time   |-> IF cfg.show_response_time
                              THEN Some(resp.response_time) ELSE None,
                 tag    |-> "ok", msg |-> "" ]
      [] r.kind = "NotFound" ->
           LET resp == Unwrap(r.detail)
           IN  [ word   |-> resp.word, status |-> Some(resp.status),
                 length |-> IF cfg.show_content_length
                              THEN resp.content_length ELSE None,
                 time   |-> IF cfg.show_response_time
                              THEN Some(resp.response_time) ELSE None,
                 tag    |-> "", msg |-> "" ]
      [] r.kind = "Error" ->
           [ word |-> r.word, status |-> None, length |-> None, time |-> None,
             tag |-> "ERROR", msg |-> r.msg ]
      [] r.kind = "Filtered" ->
           LET resp == Unwrap(r.detail)
           IN  [ word |-> resp.word, status |-> Some(resp.status),
                 length |-> None, time |-> None, tag |-> "[FILTERED]",
                 msg |-> "" ]

IsReported(r) == r.kind \in {"Success", "NotFound"}

UnwrapOr(o, d) == IF IsSome(o) THEN Unwrap(o) ELSE d

\* output.rs: the entry of a Success or NotFound result in a json, csv or
\* xml file
ReportEntry(r, format) ==
    LET resp == Unwrap(r.detail)
    IN  CASE format = "json" ->
               [ word |-> resp.word, status |-> resp.status,
                 content_length |-> resp.content_length,
                 response_time_ms |-> resp.response_time,
                 word_count |-> resp.word_count ]
          [] format = "csv" ->
               [ word |-> resp.word, status |-> resp.status,
                 content_length |-> UnwrapOr(resp.content_length, 0),
                 response_time_ms |-> resp.response_time,
                 word_count |-> UnwrapOr(resp.word_count, 0) ]
          [] format = "xml" ->
               [ word |-> resp.word, status |-> resp.status,
                 content_length |-> UnwrapOr(resp.content_length, 0),
                 response_time_ms |-> resp.response_time ]

\* output.rs: save_results, the content written to the file
save_results(results, cfg, format) ==
    IF format \in {"json", "csv", "xml"}
      THEN LET kept == SelectSeq(results, IsReported)
           IN  [i \in 1..Len(kept) |-> ReportEntry(kept[i], format)]
      ELSE [i \in 1..Len(results) |-> format_output(results[i], cfg)]

\* main.rs: with --output-file the results are saved after the scan; the
\* write may fail, and main then returns the error
SaveResults ==
    /\ pc_main = "summary"
    /\ IsSome(config.output_file)
    /\ results_lock = 0
    /\ \E written \in BOOLEAN :
          IF written
            THEN /\ text_content' =
                       Some(save_results(all_results, config, config.output_format))
                 /\ pc_main' = "saved"
            ELSE /\ pc_main' = "failed"
                 /\ UNCHANGED text_content
    /\ UNCHANGED << config, wl_len, probe_idx, wildcard_profile, next_word,
                    summary, global_delay, should_stop, permits, pc,
                    holds_permit, attempt, extra_backoff, sleep_ms, response,
                    result, sent >>
    /\ UNCHANGED << counter_vars, output_vars, history_vars, verdict_vars >>

WorkerStep(w) ==
    \/ Acquire(w)
    \/ SendAfterSleep(w)
    \/ ReceiveResponse(w)
    \/ ReceiveFailure(w)
    \/ ReadBody(w)
    \/ RetryAfterBackoff(w)
    \/ LockResults(w)
    \/ RecordResult(w)

Next ==
    \/ Probe
    \/ StartScan
    \/ CtrlC
    \/ Dispatch
    \/ Summary
    \/ SaveResults
    \/ \E w \in Words : Acquire(w)
    \/ \E w \in Words : SendAfterSleep(w)
    \/ \E w \in Words : ReceiveResponse(w)
    \/ \E w \in Words : ReceiveFailure(w)
    \/ \E w \in Words : ReadBody(w)
    \/ \E w \in Words : RetryAfterBackoff(w)
    \/ \E w \in Words : LockResults(w)
    \/ \E w \in Words : RecordResult(w)

Spec == Init /\ [][Next]_vars

\* The runtime keeps polling main and the futures it drives, every sleep ends
\* and every request is answered; the signal need never arrive.
Fairness ==
    /\ WF_vars(Probe)
    /\ WF_vars(StartScan)
    /\ WF_vars(Dispatch)
    /\ WF_vars(Summary)
    /\ WF_vars(SaveResults)
    /\ \A w \in 1..MaxWords : WF_vars(WorkerStep(w))

FairSpec == Spec /\ Fairness

(***************************************************************************)
(* wildcard.rs: the profile under any sequence of add_sample calls.  The   *)
(* samples are those of a page that repeats a part of the request in its   *)
(* body (three lengths) and of a different page; probe_idx counts the      *)
(* calls.                                                                  *)
(***************************************************************************)
scan_vars == << config, wl_len, pc_main, global_delay, found_count, error_count,
                filtered_count, should_stop, permits, results_lock, all_results,
                next_word, console, summary, pc, holds_permit, attempt,
                extra_backoff, sleep_ms, response, result, sent, rl_streak,
                rl_base, rl_reset, last_error, rl_since_2xx, text_content >>

SampleResponses ==
    { [ body |-> "<title>Not Found</title>\nNo page at /xxx",
        status |-> 200, headers |-> HtmlHeaders ],
      [ body |-> "<title>Not Found</title>\nNo page at /xxxxxxxxxxx",
        status |-> 200, headers |-> HtmlHeaders ],
      [ body |-> "<title>Not Found</title>\nNo page at /xxxxxxx",
        status |-> 200, headers |-> HtmlHeaders ],
      [ body |-> "<html><title>Home</title><p>hi</p><p>there</p></html>",
        status |-> 404, headers |-> [ct |-> "text/plain"] ],
      [ body |-> "", status |-> 200, headers |-> HtmlHeaders ] }

Samples ==
    { from_response(r.body, r.status, r.headers) : r \in SampleResponses }

AddSample ==
    /\ probe_idx <= MaxSamples
    /\ \E sample \in Samples :
          wildcard_profile' = add_sample(wildcard_profile, sample)
    /\ probe_idx' = probe_idx + 1
    /\ UNCHANGED scan_vars
    /\ UNCHANGED verdict_vars

ProfileSpec == Init /\ [][AddSample]_vars

(***************************************************************************)
(* wildcard.rs: merge_range called on a list of ranges, as                 *)
(* test_wildcard_profile_merge_ranges calls it; the list is size_ranges    *)
(* and probe_idx counts the calls.                                         *)
(***************************************************************************)
RangePoints == {100, 150, 200, 250, 300, 400}

MergeRange ==
    /\ probe_idx <= MaxMerges
    /\ \E min \in RangePoints, max \in RangePoints :
          /\ min <= max
          /\ wildcard_profile' =
                [wildcard_profile EXCEPT
                    !.size_ranges = merge_range(@, min, max)]
    /\ probe_idx' = probe_idx + 1
    /\ UNCHANGED scan_vars
    /\ UNCHANGED verdict_vars

RangeSpec == Init /\ [][MergeRange]_vars

(***************************************************************************)
(* wildcard.rs: is_likely_wildcard called on the profile that the          *)
(* add_sample calls built so far, for the sample of a response: one of the *)
(* responses the profile was built from, or a page that shares only some   *)
(* of their features.                                                      *)
(***************************************************************************)
QueryResponses ==
    SampleResponses \cup
    { [ body |-> "<b>x</b>", status |-> 200, headers |-> HtmlHeaders ],
      [ body |-> "<b>x</b>", status |-> 404, headers |-> HtmlHeaders ],
      [ body |-> "<b>aaaaaaaaaaaaaaaaaaaaaaaaaaaaaaaaaaaaaaaaaaaaaaaaaa</b> b c\nd e f",
        status |-> 200, headers |-> HtmlHeaders ],
      [ body |-> "<title>Not Found</title>\nNo page at /yyy",
        status |-> 200, headers |-> HtmlHeaders ],
      [ body |-> "aaaaaaaaaaaaaaaaaaaaaaaaaaaaaaaaaaaaaaaa",
        status |-> 200, headers |-> HtmlHeaders ],
      [ body |-> "aaaaaaaaaaaaaaaaaaaaaaaaaaaaaaaaaaaaaaaa",
        status |-> 404, headers |-> HtmlHeaders ],
      [ body |-> "a b c\nd\ne f", status |-> 404, headers |-> HtmlHeaders ] }

QuerySamples ==
    { from_response(r.body, r.status, r.headers) : r \in QueryResponses }

\* one call in a run
Detect ==
    /\ wildcard_verdict = None
    /\ \E sample \in QuerySamples :
          wildcard_verdict' =
              Some([ self  |-> wildcard_profile,
                     resp  |-> sample,
                     value |-> is_likely_wildcard(wildcard_profile, sample) ])
    /\ UNCHANGED << probe_idx, wildcard_profile, filter_verdict >>
    /\ UNCHANGED scan_vars

DetectSpec == Init /\ [][AddSample \/ Detect]_vars

(***************************************************************************)
(* parser.rs: should_filter_response called on a response and a            *)
(* configuration, as bust_url_with_retry and the tests call it: each       *)
(* optional field absent or present, each value at and next to the limits. *)
(***************************************************************************)
FilterResponses ==
    { DetailedResponse(1, status, content_length, response_time, word_count) :
        status \in {200, 404},
        content_length \in {None, Some(4), Some(5), Some(500), Some(501)},
        response_time \in {100, 101},
        word_count \in {None, Some(0), Some(1), Some(100), Some(101)} }

FilterConfigs ==
    [ filter_codes : {{}, {404}},
      filter_size  : {None, Some(<<5, 500>>)},
      filter_time  : {None, Some(100)},
      filter_words : {None, Some(<<1, 100>>)} ]

\* one call in a run
Filter ==
    /\ filter_verdict = None
    /\ \E resp \in FilterResponses, cfg \in FilterConfigs :
          filter_verdict' =
              Some([ response |-> resp,
                     config   |-> cfg,
                     value    |-> should_filter_response(resp, cfg) ])
    /\ UNCHANGED << probe_idx, wildcard_profile, wildcard_verdict >>
    /\ UNCHANGED scan_vars

FilterSpec == Init /\ [][Filter]_vars

(***************************************************************************)
(* tests.rs: test_concurrent_state_updates.  NumThreads threads share the  *)
(* state of create_test_state; each runs MaxIncrements times                *)
(* found_count.fetch_add(1) and then error_count.fetch_add(1), the main    *)
(* thread joins them and loads the counters.  pc is the position of each   *)
(* thread, attempt its loop variable.                                      *)
(***************************************************************************)
Threads == 1..NumThreads

\* AtomicUsize::fetch_add: one indivisible read-modify-write (the wrap at
\* usize::MAX is out of reach)
fetch_add_Store(counter, val) == val
fetch_add(counter, val) == counter + val

CounterInit ==
    /\ config = CHOOSE c \in Configs : c.threads = 0
    /\ wl_len = 0
    /\ pc_main = "spawned"
    /\ probe_idx = 1
    /\ wildcard_profile = WildcardProfile_new
    /\ global_delay = 0
    /\ found_count = 0
    /\ error_count = 0
    /\ filtered_count = 0
    /\ should_stop = FALSE
    /\ permits = 0
    /\ results_lock = 0
    /\ all_results = <<>>
    /\ next_word = 1
    /\ console = <<>>
    /\ summary = None
    /\ pc = [t \in Threads |-> "found"]
    /\ holds_permit = [t \in Threads |-> FALSE]
    /\ attempt = [t \in Threads |-> 0]
    /\ extra_backoff = [t \in Threads |-> 0]
    /\ sleep_ms = [t \in Threads |-> 0]
    /\ response = [t \in Threads |-> None]
    /\ result = [t \in Threads |-> None]
    /\ sent = [t \in Threads |-> 0]
    /\ rl_streak = [t \in Threads |-> 0]
    /\ rl_base = [t \in Threads |-> 0]
    /\ rl_reset = [t \in Threads |-> FALSE]
    /\ last_error = [t \in Threads |-> None]
    /\ rl_since_2xx = 0
    /\ text_content = None
    /\ wildcard_verdict = None
    /\ filter_verdict = None

counter_frame == << config, wl_len, probe_idx, wildcard_profile, global_delay,
                    should_stop, permits, results_lock, all_results, next_word,
                    console, holds_permit, extra_backoff, sleep_ms, response,
                    result, sent, rl_streak, rl_base, rl_reset, last_error,
                    rl_since_2xx, text_content, wildcard_verdict,
                    filter_verdict >>

\* state_clone.found_count.fetch_add(1, Ordering::Relaxed)
FetchAddFound(t) ==
    /\ pc_main = "spawned"
    /\ pc[t] = "found"
    /\ found_count' = fetch_add(found_count, 1)
    /\ pc' = [pc EXCEPT ![t] = "error"]
    /\ UNCHANGED << error_count, filtered_count, attempt, pc_main, summary >>
    /\ UNCHANGED counter_frame

\* state_clone.error_count.fetch_add(1, Ordering::Relaxed), the end of the
\* loop body; after the last iteration the thread ends
FetchAddError(t) ==
    /\ pc_main = "spawned"
    /\ pc[t] = "error"
    /\ error_count' = fetch_add(error_count, 1)
    /\ attempt' = [attempt EXCEPT ![t] = @ + 1]
    /\ pc' = [pc EXCEPT ![t] = IF attempt[t] + 1 < MaxIncrements
                                  THEN "found" ELSE "ended"]
    /\ UNCHANGED << found_count, filtered_count, pc_main, summary >>
    /\ UNCHANGED counter_frame

\* every handle.join() has returned: the counters are loaded for the asserts
JoinAndLoad ==
    /\ pc_main = "spawned"
    /\ \A t \in Threads : pc[t] = "ended"
    /\ pc_main' = "joined"
    /\ summary' = Some([ final_found    |-> found_count,
                         final_errors   |-> error_count,
                         final_filtered |-> filtered_count ])
    /\ UNCHANGED << counter_vars, pc, attempt >>
    /\ UNCHANGED counter_frame

CounterNext ==
    \/ \E t \in Threads : FetchAddFound(t)
    \/ \E t \in Threads : FetchAddError(t)
    \/ JoinAndLoad

CounterSpec == CounterInit /\ [][CounterNext]_vars

TypeOK ==
    /\ permits \in 0..config.threads
    /\ global_delay \in Nat
    /\ \A w \in Words : attempt[w] \in 0..config.retries

(***************************************************************************)
(* Properties of the scan                                                  *)
(***************************************************************************)
ResultsOf(w) == {i \in 1..Len(all_results) : all_results[i].word = w}

KindCount(kind) ==
    Cardinality({i \in 1..Len(all_results) : all_results[i].kind = kind})

\* the result of word w, before or after it was recorded
HasResult(w, r) ==
    \/ result[w] = Some(r)
    \/ \E i \in ResultsOf(w) : all_results[i] = r

\* the step makes bust_url_with_retry return for word w
Returns(w) == pc[w] # "returned" /\ pc'[w] = "returned"

\* the step classifies the response whose body worker w was reading
Classifies(w) == pc[w] = "body" /\ pc'[w] # "body"

ReturnedResult(w) == Unwrap(result'[w])

\* C1: every dispatched word gets exactly one BustResult, and the variant
\* follows the classification rules: Success or Filtered for a 2xx, NotFound
\* or Filtered for a non-2xx that is not retried, Error for a cancellation,
\* a 429 on the last attempt or a transport failure that is not retried.
C1_OneResultPerWord(w) ==
    /\ pc'[w] \in {"returned", "locked"} <=> IsSome(result'[w])
    /\ Cardinality(ResultsOf(w))' = (IF pc'[w] = "done" THEN 1 ELSE 0)
    /\ IsSome(result[w]) /\ IsSome(result'[w]) => result'[w] = result[w]

C1_VariantByCause(w) ==
    /\ Classifies(w) =>
          LET status == Unwrap(response[w]).status
              last   == attempt[w] = config.retries
          IN  IF Is2xx(status)
                THEN Returns(w) /\ ReturnedResult(w).kind \in {"Success", "Filtered"}
              ELSE IF status = 429
                THEN Returns(w) <=> last
              ELSE IF Is5xx(status)
                THEN Returns(w) <=> last
              ELSE Returns(w)
    /\ Returns(w) /\ pc[w] = "body" /\ ~Is2xx(Unwrap(response[w]).status) =>
          IF Unwrap(response[w]).status = 429
            THEN ReturnedResult(w) = Error(w, "Rate limited")
            ELSE ReturnedResult(w).kind \in {"NotFound", "Filtered"}
    /\ Returns(w) /\ pc[w] = "in_flight" =>
          /\ ReturnedResult(w).kind = "Error"
          /\ ReturnedResult(w).msg \in FailureMessages
          /\ IsRetryableError(ReturnedResult(w).msg) => attempt[w] = config.retries
    /\ Returns(w) /\ pc[w] \in {"acquire", "backoff"} =>
          should_stop /\ ReturnedResult(w) = Error(w, "Scan stopped by user")

C1_ClassificationTotality ==
    [][\A w \in Words : C1_OneResultPerWord(w) /\ C1_VariantByCause(w)]_vars

C1_Witness ==
    /\ pc_main = "summary"
    /\ KindCount("Error") >= 1
    /\ KindCount("NotFound") + KindCount("Filtered") + KindCount("Success") >= 1

\* C2: when the scan has ended, found_count + error_count + filtered_count
\* plus the number of NotFound results is the number of words, also when
\* should_stop was set on the way.
C2_CounterConsistency ==
    pc_main = "summary" =>
        /\ Unwrap(summary).final_found + Unwrap(summary).final_errors
             + Unwrap(summary).final_filtered + KindCount("NotFound") = wl_len
        /\ Len(all_results) = wl_len

C2_Witness ==
    /\ pc_main = "summary"
    /\ should_stop
    /\ KindCount("NotFound") >= 1
    /\ Unwrap(summary).final_errors >= 1

\* C3: never more than threads workers hold a permit, and a worker whose
\* request is in flight (sent, or its body being read) holds one.
PermitHolders == {w \in Words : holds_permit[w]}

C3_BoundedConcurrency ==
    /\ Cardinality(PermitHolders) <= config.threads
    /\ permits + Cardinality(PermitHolders) = config.threads
    /\ \A w \in Words : pc[w] \in {"in_flight", "body"} => holds_permit[w]

C3_Witness ==
    /\ config.threads >= 2
    /\ Cardinality({w \in Words : pc[w] = "in_flight" /\ holds_permit[w]})
           = config.threads
    /\ permits = 0

\* C4: when a worker got a 2xx response, global_delay is 0 in the state in
\* which its result (Success or Filtered) has just been returned.
C4_ResetOn2xx ==
    [][\A w \in Words :
          Classifies(w) /\ Is2xx(Unwrap(response[w]).status) =>
              /\ Returns(w)
              /\ ReturnedResult(w).kind \in {"Success", "Filtered"}
              /\ global_delay' = 0]_vars

C4_Witness ==
    \E w \in Words, v \in Words :
        /\ w # v
        /\ pc[w] = "returned"
        /\ Unwrap(result[w]).kind = "Success"
        /\ rl_streak[v] >= 1
        /\ rl_reset[v]
        /\ global_delay = 0

\* the attempt of worker w that follows two or more 429 responses in a row
\* has read global_delay
ReadAfterTwo429(w) ==
    /\ rl_streak[w] >= 2
    /\ pc[w] \in {"pre_sleep", "in_flight"}

\* C5 as stated: with retries >= 2, two 429 responses in a row on one word
\* raise global_delay by at least 1000 over its value before the first of
\* them by the time the next attempt of that word reads it, and the first 2xx
\* response afterwards resets global_delay to 0.
C5_RateLimitEscalation_AsStated ==
    [][\A w \in Words :
          /\ ReadAfterTwo429(w)' => extra_backoff'[w] >= rl_base'[w] + 1000
          /\ rl_streak[w] >= 2 /\ Classifies(w) /\ Is2xx(Unwrap(response[w]).status)
                => global_delay' = 0]_vars

\* C5 amended: the same, unless a 2xx response of another worker reset
\* global_delay between the first 429 and the read.
C5_RateLimitEscalation ==
    [][\A w \in Words :
          /\ ReadAfterTwo429(w)' /\ ~rl_reset'[w]
                => extra_backoff'[w] >= rl_base'[w] + 1000
          /\ rl_streak[w] >= 2 /\ Classifies(w) /\ Is2xx(Unwrap(response[w]).status)
                => global_delay' = 0]_vars

C5_Witness ==
    \E w \in Words :
        /\ config.retries >= 2
        /\ rl_streak[w] = 2
        /\ attempt[w] = 2
        /\ pc[w] = "pre_sleep"
        /\ ~rl_reset[w]
        /\ extra_backoff[w] >= rl_base[w] + 1000
        /\ rl_base[w] >= 500

\* C6: should_stop, once set, stays set, and a worker that starts an attempt
\* while it is set (its first, or one after a backoff) returns
\* Error(word, "Scan stopped by user") and sends no request.
C6_Cancellation ==
    [][/\ should_stop => should_stop'
       /\ \A w \in Words :
             should_stop /\ pc[w] \in {"acquire", "backoff"} /\ pc'[w] # pc[w] =>
                 /\ pc'[w] = "returned"
                 /\ result'[w] = Some(Error(w, "Scan stopped by user"))
                 /\ sent'[w] = sent[w]]_vars

C6_Witness ==
    \E w \in Words, v \in Words :
        /\ should_stop
        /\ HasResult(w, Error(w, "Scan stopped by user"))
        /\ sent[w] >= 1
        /\ HasResult(v, Error(v, "Scan stopped by user"))
        /\ sent[v] = 0

\* C7: with every request answered and every worker scheduled, the scan
\* completes: every word has its result in the results vector and main
\* reaches the summary.
ScanComplete ==
    /\ pc_main = "summary"
    /\ \A w \in Words : Cardinality(ResultsOf(w)) = 1

C7_ScanCompletes == <>ScanComplete

\* the same for a scan that has at least one thread
C7_ScanCompletesWithThreads == (config.threads >= 1) => <>ScanComplete

\* C8: at most retries + 1 requests are sent for a word.
C8_AttemptBound == \A w \in Words : sent[w] <= config.retries + 1

C8_Witness ==
    \E w \in Words :
        /\ config.retries >= 2
        /\ sent[w] = config.retries + 1
        /\ pc[w] = "in_flight"

\* C9: every 429 response adds exactly 500 to global_delay, the one on the
\* last attempt too; with attempts left the worker sleeps 1000 * (attempt + 1)
\* ms and starts the next attempt, otherwise it returns
\* Error(word, "Rate limited").
C9_RateLimited ==
    [][\A w \in Words :
          /\ Classifies(w) /\ Unwrap(response[w]).status = 429 =>
                /\ global_delay' = global_delay + 500
                /\ IF attempt[w] < config.retries
                     THEN /\ pc'[w] = "backoff"
                          /\ sleep_ms'[w] = 1000 * (attempt[w] + 1)
                          /\ result'[w] = None
                     ELSE /\ pc'[w] = "returned"
                          /\ result'[w] = Some(Error(w, "Rate limited"))
          /\ pc[w] = "backoff" /\ pc'[w] # "backoff" /\ ~should_stop =>
                /\ attempt'[w] = attempt[w] + 1
                /\ pc'[w] \in {"pre_sleep", "in_flight"}]_vars

C9_Witness ==
    \E w \in Words :
        /\ config.retries >= 2
        /\ result[w] = Some(Error(w, "Rate limited"))
        /\ rl_streak[w] = config.retries + 1
        /\ global_delay = rl_base[w] + 500 * (config.retries + 1)

\* C10: a 5xx response is retried after 500 * (attempt + 1) ms while attempts
\* are left; on the last attempt it gives Filtered if the filter predicate
\* holds and NotFound otherwise, never Error.
C10_ServerError ==
    [][\A w \in Words :
          Classifies(w) /\ Is5xx(Unwrap(response[w]).status) =>
              IF attempt[w] < config.retries
                THEN /\ pc'[w] = "backoff"
                     /\ sleep_ms'[w] = 500 * (attempt[w] + 1)
                     /\ result'[w] = None
                ELSE /\ pc'[w] = "returned"
                     /\ ReturnedResult(w).kind \in {"Filtered", "NotFound"}
                     /\ ReturnedResult(w).kind = "Filtered"
                           <=> should_filter_response(Unwrap(ReturnedResult(w).detail),
                                                      config)
                     /\ Unwrap(ReturnedResult(w).detail).status
                           = Unwrap(response[w]).status]_vars

C10_Witness ==
    \E w \in Words, v \in Words :
        /\ HasResult(w, Filtered(DetailedResponse(w, 503, None, 120, Some(0))))
        /\ attempt[w] \in {0, config.retries}
        /\ pc[v] = "backoff"
        /\ sleep_ms[v] = 500
        /\ config.retries >= 1

(***************************************************************************)
(* Properties of the classification of one response or failure             *)
(***************************************************************************)
\* the step is the match on the status of the response worker w was reading
StatusOf(w) == Unwrap(response[w]).status

\* the step is the Err(e) arm of the attempt worker w had in flight
FailsSend(w) == pc[w] = "in_flight" /\ pc'[w] \in {"backoff", "returned"}

\* C11: a response whose status is neither 2xx, 429 nor 5xx is not retried,
\* whatever the attempts that remain: the worker returns at once, Filtered
\* if the filter predicate holds for the response and NotFound otherwise.
C11_OtherStatusNotRetried ==
    [][\A w \in Words :
          /\ Classifies(w)
          /\ StatusOf(w) \notin ((200..299) \cup {429} \cup (500..599))
          => /\ pc'[w] = "returned"
             /\ ReturnedResult(w).kind \in {"Filtered", "NotFound"}
             /\ Unwrap(ReturnedResult(w).detail).word = w
             /\ Unwrap(ReturnedResult(w).detail).status = StatusOf(w)
             /\ ReturnedResult(w).kind =
                    IF should_filter_response(Unwrap(ReturnedResult(w).detail), config)
                      THEN "Filtered" ELSE "NotFound"
             /\ sent'[w] = sent[w]
             /\ global_delay' = global_delay]_vars

C11_Witness ==
    \E w, v \in Words :
        /\ pc[w] = "returned" /\ pc[v] = "returned"
        /\ attempt[w] < config.retries /\ attempt[v] < config.retries
        /\ sent[w] = 1 /\ sent[v] = 1
        /\ Unwrap(result[w]).kind = "NotFound"
        /\ Unwrap(Unwrap(result[w]).detail).status = 404
        /\ Unwrap(result[v]).kind = "Filtered"
        /\ Unwrap(Unwrap(result[v]).detail).status = 404

\* C12: a transport failure is retried, after a sleep of 1000 * (attempt + 1)
\* ms, exactly when its message contains "timeout", "connection" or "dns"
\* and attempt < retries; otherwise the worker returns Error(word, message)
\* with the message of the failure.
C12_TransportFailure ==
    [][\A w \in Words :
          FailsSend(w) =>
             /\ IsSome(last_error'[w])
             /\ LET m == Unwrap(last_error'[w])
                IN  IF /\ \/ Contains(m, "timeout")
                          \/ Contains(m, "connection")
                          \/ Contains(m, "dns")
                       /\ attempt[w] < config.retries
                      THEN /\ pc'[w] = "backoff"
                           /\ sleep_ms'[w] = 1000 * (attempt[w] + 1)
                           /\ result'[w] = None
                      ELSE /\ pc'[w] = "returned"
                           /\ result'[w] = Some(Error(w, m))
             /\ global_delay' = global_delay]_vars

C12_Witness ==
    \E w, v \in Words :
        /\ pc[w] = "backoff"
        /\ last_error[w] = Some("tcp connection reset")
        /\ attempt[w] = 1
        /\ sleep_ms[w] = 2000
        /\ pc[v] = "returned"
        /\ attempt[v] < config.retries
        /\ result[v] = Some(Error(v, "operation timed out"))

\* C13: a 2xx response is never retried and never gives NotFound or Error:
\* the result is Filtered if the filter predicate holds, else Filtered if
\* detect_wildcards is set and the profile takes the sample of the response
\* for a wildcard, else Success.
C13_Classify2xx ==
    [][\A w \in Words :
          Classifies(w) /\ StatusOf(w) \in 200..299 =>
             /\ pc'[w] = "returned"
             /\ ReturnedResult(w).kind \in {"Filtered", "Success"}
             /\ LET r == Unwrap(response[w])
                    d == Unwrap(ReturnedResult(w).detail)
                IN  /\ d.word = w /\ d.status = r.status
                    /\ \E text \in {r.body, ""} :
                          /\ IsSome(d.word_count)
                                => Unwrap(d.word_count) = split_whitespace_count(text)
                          /\ ReturnedResult(w) =
                               IF should_filter_response(d, config)
                                 THEN Filtered(d)
                               ELSE IF /\ config.detect_wildcards
                                       /\ is_likely_wildcard(wildcard_profile,
                                            from_response(text, r.status, r.headers))
                                 THEN Filtered(d)
                               ELSE Success(d)
             /\ sent'[w] = sent[w]]_vars

C13_Witness ==
    /\ config.detect_wildcards
    /\ \E i, j \in 1..Len(all_results) :
          /\ all_results[i].kind = "Filtered"
          /\ Unwrap(all_results[i].detail).status = 200
          /\ ~should_filter_response(Unwrap(all_results[i].detail), config)
          /\ all_results[j].kind = "Success"

(***************************************************************************)
(* Properties of the driver: counters, results vector, console             *)
(***************************************************************************)
\* the step in which worker w pushes its result and its future ends
Records(w) == pc[w] = "locked" /\ pc'[w] = "done"

Delta(kind, r) == IF r.kind = kind THEN 1 ELSE 0

\* C14: for each result the driver adds exactly 1 to exactly one counter
\* (found_count for Success, error_count for Error, filtered_count for
\* Filtered) or to none (NotFound); the result is appended to the results
\* vector whatever its variant, and at scan end the vector holds exactly one
\* entry per word.
C14_CountersAndResults ==
    [][/\ \A w \in Words :
             Records(w) =>
                LET r == Unwrap(result[w])
                IN  /\ all_results' = Append(all_results, r)
                    /\ found_count' = found_count + Delta("Success", r)
                    /\ error_count' = error_count + Delta("Error", r)
                    /\ filtered_count' = filtered_count + Delta("Filtered", r)
       /\ (\A w \in Words : ~Records(w)) =>
             UNCHANGED << all_results, found_count, error_count, filtered_count >>
       /\ pc_main' = "summary" =>
             /\ Len(all_results') = wl_len
             /\ \A w \in Words : Cardinality(ResultsOf(w))' = 1]_vars

C14_Witness ==
    /\ pc_main = "summary"
    /\ KindCount("Success") = 1 /\ found_count = 1
    /\ KindCount("NotFound") = 1
    /\ error_count = 0 /\ filtered_count = 0

\* C15: a console line is emitted for every Success, for a NotFound or an
\* Error only when only_success is not set, and never for a Filtered.
C15_ConsoleEmission ==
    [][/\ \A w \in Words :
             Records(w) =>
                LET r == Unwrap(result[w])
                IN  console' =
                      CASE r.kind = "Success" -> Append(console, r)
                        [] r.kind \in {"NotFound", "Error"} ->
                             IF config.only_success THEN console
                                                    ELSE Append(console, r)
                        [] r.kind = "Filtered" -> console
       /\ (\A w \in Words : ~Records(w)) => console' = console]_vars

C15_Witness ==
    /\ config.only_success
    /\ pc_main = "summary"
    /\ KindCount("Success") = 1
    /\ KindCount("NotFound") + KindCount("Error") = 1
    /\ Len(console) = 1

\* C16: the wildcard profile changes only in the probe phase: every
\* add_sample comes before the first worker is dispatched, and no step of a
\* worker or of the driver changes the profile afterwards.
C16_ProfileFrozen ==
    [][/\ wildcard_profile' # wildcard_profile =>
             /\ pc_main = "probe"
             /\ next_word = 1
             /\ \A w \in Words : pc[w] = "queued"
       /\ pc_main # "probe" => wildcard_profile' = wildcard_profile]_vars

C16_Witness ==
    /\ pc_main = "summary"
    /\ Len(all_results) = wl_len
    /\ Cardinality(wildcard_profile.sha256_hashes) = 1
    /\ Len(wildcard_profile.size_ranges) = 1
    /\ \E i \in 1..Len(all_results) : all_results[i].kind = "Filtered"

\* the driver can start another worker or some worker can take a step
ScanCanProgress ==
    \/ ENABLED Dispatch
    \/ \E w \in Words : ENABLED WorkerStep(w)

\* the mutex is held only by a worker that waits for nothing, and a permit
\* is held by no worker that has returned its result to the driver
LocksReleased ==
    /\ \A w \in Words : results_lock = w => pc[w] = "locked"
    /\ \A w \in Words : pc[w] \in {"queued", "acquire", "done"} => ~holds_permit[w]
    /\ permits + Cardinality(PermitHolders) = config.threads

\* C17: the scan has no deadlock: in no state of the scan is a worker
\* unfinished while no worker can take a step; the results mutex is never
\* held while waiting for a lock or a permit, and a permit is released on
\* every result path.
C17_NoDeadlock ==
    /\ (pc_main = "scan" /\ \E w \in Words : pc[w] # "done") => ScanCanProgress
    /\ LocksReleased

\* the same for a scan that has at least one thread
C17_NoDeadlockWithThreads == (config.threads >= 1) => C17_NoDeadlock

(***************************************************************************)
(* Properties of the wildcard profile                                      *)
(***************************************************************************)
Overlap(a, b) == a[1] <= b[2] /\ b[1] <= a[2]

NoOverlap(ranges) ==
    \A i, j \in 1..Len(ranges) : i < j => ~Overlap(ranges[i], ranges[j])

\* C18: after any sequence of add_sample calls on an empty profile no two
\* intervals of size_ranges overlap, nor of line_count_ranges, nor of
\* word_count_ranges.
C18_RangesDisjoint ==
    /\ NoOverlap(wildcard_profile.size_ranges)
    /\ NoOverlap(wildcard_profile.line_count_ranges)
    /\ NoOverlap(wildcard_profile.word_count_ranges)

\* out is what the rule gives for list and (min, max): the first interval
\* in list order that overlaps or touches (min, max) is replaced by the
\* union and the others are kept; with no such interval (min, max) is put
\* at the end
MergedAsSpecified(list, min, max, out) ==
    LET touched == {i \in 1..Len(list) : min <= list[i][2] /\ list[i][1] <= max}
    IN  IF touched = {}
          THEN out = list \o << <<min, max>> >>
          ELSE /\ Len(out) = Len(list)
               /\ \E i \in touched :
                     /\ \A j \in touched : i <= j
                     /\ out[i][1] = (IF list[i][1] < min THEN list[i][1] ELSE min)
                     /\ out[i][2] = (IF list[i][2] > max THEN list[i][2] ELSE max)
                     /\ \A j \in 1..Len(list) : j # i => out[j] = list[j]

\* C19: merge_range changes at most one interval, the first in list order
\* that overlaps or touches (min, max), which becomes the union; without
\* one (min, max) is appended.  The list never gets shorter and grows by at
\* most one; [(100,200),(300,400)] with (150,250) gives
\* [(100,250),(300,400)].
C19_MergeRange ==
    /\ [](/\ \A min \in RangePoints, max \in RangePoints :
                min <= max =>
                   LET list == wildcard_profile.size_ranges
                       out  == merge_range(list, min, max)
                   IN  /\ MergedAsSpecified(list, min, max, out)
                       /\ Len(out) \in {Len(list), Len(list) + 1}
          /\ merge_range(<< <<100, 200>>, <<300, 400>> >>, 150, 250)
                = << <<100, 250>>, <<300, 400>> >>)
    /\ [][\E min \in RangePoints, max \in RangePoints :
             /\ min <= max
             /\ MergedAsSpecified(wildcard_profile.size_ranges, min, max,
                                  wildcard_profile'.size_ranges)]_vars

C19_Witness ==
    /\ probe_idx = MaxMerges + 1
    /\ wildcard_profile.size_ranges = << <<100, 250>>, <<300, 400>> >>

\* C20: add_sample is monotone: the hashes, the status codes, the titles, the
\* error messages and the value set of every header contain what they
\* contained before, and html_tag_count_range covers every tag count it
\* covered before.
C20_AddSampleMonotone ==
    [][LET p == wildcard_profile
           q == wildcard_profile'
       IN  /\ p.sha256_hashes \subseteq q.sha256_hashes
           /\ p.common_status_codes \subseteq q.common_status_codes
           /\ p.title_patterns \subseteq q.title_patterns
           /\ p.error_message_patterns \subseteq q.error_message_patterns
           /\ \A k \in DOMAIN p.header_patterns :
                 /\ k \in DOMAIN q.header_patterns
                 /\ p.header_patterns[k] \subseteq q.header_patterns[k]
           /\ IsSome(p.html_tag_count_range) =>
                 /\ IsSome(q.html_tag_count_range)
                 /\ Unwrap(q.html_tag_count_range)[1] <= Unwrap(p.html_tag_count_range)[1]
                 /\ Unwrap(p.html_tag_count_range)[2] <= Unwrap(q.html_tag_count_range)[2]]_vars

C20_Witness ==
    /\ probe_idx > 2
    /\ Cardinality(wildcard_profile.sha256_hashes) >= 2
    /\ wildcard_profile.common_status_codes = {200, 404}
    /\ wildcard_profile.title_patterns = {"Not Found", "Home"}
    /\ wildcard_profile.header_patterns["ct"] = {"text/html", "text/plain"}
    /\ wildcard_profile.html_tag_count_range = Some(<<2, 8>>)

\* every interval of the list has its lower end at or below its upper end
WellFormed(ranges) == \A i \in 1..Len(ranges) : ranges[i][1] <= ranges[i][2]

\* C21: after every add_sample every (min, max) of size_ranges, of
\* line_count_ranges and of word_count_ranges satisfies min <= max, and so
\* does html_tag_count_range when it is present.
C21_RangesWellFormed ==
    /\ WellFormed(wildcard_profile.size_ranges)
    /\ WellFormed(wildcard_profile.line_count_ranges)
    /\ WellFormed(wildcard_profile.word_count_ranges)
    /\ IsSome(wildcard_profile.html_tag_count_range) =>
          Unwrap(wildcard_profile.html_tag_count_range)[1]
              <= Unwrap(wildcard_profile.html_tag_count_range)[2]
    /\ probe_idx > 1 =>
          /\ Len(wildcard_profile.size_ranges) >= 1
          /\ Len(wildcard_profile.line_count_ranges) >= 1
          /\ Len(wildcard_profile.word_count_ranges) >= 1
          /\ IsSome(wildcard_profile.html_tag_count_range)

C21_Witness ==
    /\ probe_idx > 3
    /\ Len(wildcard_profile.size_ranges) >= 3
    /\ <<0, 0>> \in {wildcard_profile.size_ranges[i] :
                        i \in 1..Len(wildcard_profile.size_ranges)}
    /\ wildcard_profile.html_tag_count_range = Some(<<0, 8>>)

(***************************************************************************)
(* Properties of wildcard detection                                        *)
(***************************************************************************)
\* C22: a profile built from the empty profile by add_sample(S) alone takes
\* S for a wildcard, whatever the status code of S (200 included).
C22_SelfMatch ==
    IsSome(wildcard_verdict) =>
        LET v == Unwrap(wildcard_verdict)
        IN  v.self = add_sample(WildcardProfile_new, v.resp) => v.value

C22_Witness ==
    /\ IsSome(wildcard_verdict)
    /\ Unwrap(wildcard_verdict).self
          = add_sample(WildcardProfile_new, Unwrap(wildcard_verdict).resp)
    /\ Unwrap(wildcard_verdict).resp.status_code = 200
    /\ Unwrap(wildcard_verdict).resp.size = 0
    /\ Unwrap(wildcard_verdict).value

\* the checks of the table that hold for the sample against the profile
MatchedChecks(profile, sample) ==
    { c \in {"hash", "title", "error", "size", "lines", "words", "tags", "status"} :
        CASE c = "hash"   -> sample.sha256 \in profile.sha256_hashes
          [] c = "title"  -> sample.title # None
                               /\ sample.title[1] \in profile.title_patterns
          [] c = "error"  -> sample.error_message # None
                               /\ sample.error_message[1] \in profile.error_message_patterns
          [] c = "size"   -> \E i \in DOMAIN profile.size_ranges :
                               /\ profile.size_ranges[i][1] <= sample.size
                               /\ sample.size <= profile.size_ranges[i][2]
          [] c = "lines"  -> \E i \in DOMAIN profile.line_count_ranges :
                               /\ profile.line_count_ranges[i][1] <= sample.line_count
                               /\ sample.line_count <= profile.line_count_ranges[i][2]
          [] c = "words"  -> \E i \in DOMAIN profile.word_count_ranges :
                               /\ profile.word_count_ranges[i][1] <= sample.word_count
                               /\ sample.word_count <= profile.word_count_ranges[i][2]
          [] c = "tags"   -> profile.html_tag_count_range # None
                               /\ profile.html_tag_count_range[1][1] <= sample.html_tag_count
                               /\ sample.html_tag_count <= profile.html_tag_count_range[1][2]
          [] c = "status" -> sample.status_code \in profile.common_status_codes }

\* the scoring table, confidence in tenths
TableWeight ==
    [ hash |-> 9, title |-> 7, error |-> 8, size |-> 3, lines |-> 2,
      words |-> 2, tags |-> 2, status |-> 6 ]

RECURSIVE TableSum(_)
TableSum(checks) ==
    IF checks = {} THEN 0
    ELSE LET c == CHOOSE x \in checks : TRUE
         IN  TableWeight[c] + TableSum(checks \ {c})

TableVerdict(checks, status_code) ==
    LET counted == checks \cap {"title", "error", "size", "lines", "words", "tags"}
    IN  IF status_code = 200
          THEN \/ TableSum(checks \ {"status"}) >= 7
               \/ Cardinality(counted) >= 3 /\ TableSum(checks \ {"status"}) >= 5
          ELSE \/ TableSum(checks) >= 5
               \/ Cardinality(counted) >= 2

\* C23: is_likely_wildcard is the scoring table: hash +0.9; title +0.7,
\* error phrase +0.8, size +0.3, line, word and tag count +0.2 each, these
\* six counted in match_count; status in the set +0.6 for a status other
\* than 200.  Status 200: confidence >= 0.7, or match_count >= 3 and
\* confidence >= 0.5; any other status: confidence >= 0.5 or match_count >= 2.
C23_ScoringTable ==
    IsSome(wildcard_verdict) =>
        LET v == Unwrap(wildcard_verdict)
        IN  v.value = TableVerdict(MatchedChecks(v.self, v.resp), v.resp.status_code)

\* the checks that matched in the last call
LastChecks ==
    MatchedChecks(Unwrap(wildcard_verdict).self, Unwrap(wildcard_verdict).resp)

C23_Witness ==
    /\ IsSome(wildcard_verdict)
    /\ Unwrap(wildcard_verdict).resp.status_code = 200
    /\ LastChecks = {"lines", "words", "tags", "status"}
    /\ Unwrap(wildcard_verdict).value

(***************************************************************************)
(* Properties of the filter predicate                                      *)
(***************************************************************************)
\* the clauses that hold for the response under the configuration
FilterReasons(r, c) ==
    { k \in {"code", "size", "time", "words"} :
        CASE k = "code"  -> r.status \in c.filter_codes
          [] k = "size"  -> /\ r.content_length # None /\ c.filter_size # None
                            /\ \/ r.content_length[1] < c.filter_size[1][1]
                               \/ r.content_length[1] > c.filter_size[1][2]
          [] k = "time"  -> /\ c.filter_time # None
                            /\ r.response_time > c.filter_time[1]
          [] k = "words" -> /\ r.word_count # None /\ c.filter_words # None
                            /\ \/ r.word_count[1] < c.filter_words[1][1]
                               \/ r.word_count[1] > c.filter_words[1][2] }

\* C24: should_filter_response is true exactly when at least one clause
\* holds: the status is in filter_codes; content_length is known, filter_size
\* is set and the length is outside [min, max]; filter_time is set and the
\* response time in ms exceeds it; word_count is known, filter_words is set
\* and the count is outside [min, max].  A clause whose response field or
\* configuration field is absent does not count: the value is the one
\* obtained with the other field of that clause absent too.
C24_FilterPredicate ==
    IsSome(filter_verdict) =>
        LET v == Unwrap(filter_verdict)
            r == v.response
            c == v.config
        IN  /\ v.value <=> FilterReasons(r, c) # {}
            /\ r.content_length = None =>
                  v.value = should_filter_response(r, [c EXCEPT !.filter_size = None])
            /\ c.filter_size = None =>
                  v.value = should_filter_response([r EXCEPT !.content_length = None], c)
            /\ r.word_count = None =>
                  v.value = should_filter_response(r, [c EXCEPT !.filter_words = None])
            /\ c.filter_words = None =>
                  v.value = should_filter_response([r EXCEPT !.word_count = None], c)

C24_Witness ==
    /\ IsSome(filter_verdict)
    /\ Unwrap(filter_verdict).response.content_length = None
    /\ Unwrap(filter_verdict).config.filter_size # None
    /\ Unwrap(filter_verdict).response.word_count = Some(101)
    /\ Unwrap(filter_verdict).config.filter_words = None
    /\ Unwrap(filter_verdict).response.response_time = 100
    /\ Unwrap(filter_verdict).config.filter_time = Some(100)
    /\ ~Unwrap(filter_verdict).value

(***************************************************************************)
(* Properties of the saved results                                         *)
(***************************************************************************)
NonFiltered(r) == r.kind # "Filtered"

\* C25: a text file holds exactly one formatted line per non-filtered
\* result: a Filtered result contributes no line, every Success, NotFound
\* and Error result contributes one.
C25_TextOutput ==
    IsSome(text_content) /\ config.output_format = "text" =>
        LET lines == Unwrap(text_content)
            kept  == SelectSeq(all_results, NonFiltered)
        IN  /\ Len(lines) = Len(kept)
            /\ \A i \in 1..Len(kept) : lines[i] = format_output(kept[i], config)
            /\ \A i \in 1..Len(lines) : lines[i].tag # "[FILTERED]"

(***************************************************************************)
(* Properties of one attempt                                               *)
(***************************************************************************)
\* the step is the head of an attempt of worker w that was not cancelled
BeginsAttempt(w) ==
    /\ pc[w] \in {"acquire", "backoff"}
    /\ pc'[w] \in {"pre_sleep", "in_flight"}

\* the values the configured delay can take
DelayWindow ==
    IF config.delay_max <= config.delay_min
      THEN {config.delay_min}
      ELSE config.delay_min..config.delay_max

\* C26: on each attempt the sleep before the request happens exactly when
\* base, the configured delay (drawn from [delay_min, delay_max], or
\* delay_min when delay_max <= delay_min) plus the global_delay read at that
\* attempt, is greater than 0; it lasts base plus a jitter below 100 ms.
\* With delay_min = delay_max = 0 an attempt sleeps exactly when the
\* global_delay it read is not 0.
C26_PreRequestSleep ==
    [][\A w \in Words :
          BeginsAttempt(w) =>
             /\ extra_backoff'[w] = global_delay
             /\ \E delay \in DelayWindow :
                   LET base == delay + global_delay
                   IN  IF base > 0
                         THEN /\ pc'[w] = "pre_sleep"
                              /\ sleep_ms'[w] >= base /\ sleep_ms'[w] < base + 100
                              /\ sent'[w] = sent[w]
                         ELSE /\ pc'[w] = "in_flight"
                              /\ sleep_ms'[w] = 0
                              /\ sent'[w] = sent[w] + 1
             /\ config.delay_min = 0 /\ config.delay_max = 0 =>
                   (pc'[w] = "pre_sleep" <=> global_delay # 0)]_vars

C26_Witness ==
    \E w, v \in Words :
        /\ config.delay_min = 0 /\ config.delay_max = 0
        /\ pc[w] = "pre_sleep"
        /\ extra_backoff[w] = 500
        /\ sleep_ms[w] = 599
        /\ sent[v] = 1 /\ attempt[v] = 0 /\ pc[v] = "backoff"

\* C27: the response_time of a DetailedResponse spans from just before the
\* request is sent to the end of the body read: it is taken after the body
\* was read, not when the headers arrive.
C27_ResponseTimeAfterBody ==
    [][\A w \in Words :
          /\ Classifies(w)
          /\ Returns(w)
          /\ ReturnedResult(w).kind \in {"Success", "NotFound", "Filtered"}
          => Unwrap(ReturnedResult(w).detail).response_time
                 = Unwrap(response[w]).t_body]_vars

\* C28: the result of a word reflects its last attempt: a Success, NotFound
\* or Filtered result carries the status (and length) of the response to the
\* last request sent for the word, which is the request of the attempt that
\* returns; the response of an attempt that is retried is dropped and never
\* shows in the result, and a result once returned is not replaced.
C28_LastAttempt ==
    [][\A w \in Words :
          /\ Classifies(w) =>
                /\ Unwrap(response[w]).request = sent[w]
                /\ sent[w] = attempt[w] + 1
                /\ response'[w] = None
          /\ Classifies(w) /\ ~Returns(w) =>
                /\ result'[w] = None
                /\ attempt[w] < config.retries
          /\ Returns(w) /\ ReturnedResult(w).kind \in {"Success", "NotFound", "Filtered"} =>
                /\ Classifies(w)
                /\ sent'[w] = sent[w]
                /\ Unwrap(ReturnedResult(w).detail).word = w
                /\ Unwrap(ReturnedResult(w).detail).status = StatusOf(w)
                /\ Unwrap(ReturnedResult(w).detail).content_length
                       = Unwrap(response[w]).content_length
          /\ IsSome(result[w]) => result'[w] \in {result[w], None}]_vars

C28_Witness ==
    \E w \in Words :
        /\ pc[w] = "returned"
        /\ Unwrap(result[w]).kind = "Success"
        /\ sent[w] = 3
        /\ attempt[w] = 2
        /\ global_delay = 0

(***************************************************************************)
(* Properties of add_sample and of the probes                              *)
(***************************************************************************)
\* ceil(pct % of n): the least t with 100 * t >= pct * n
CeilPercent(n, pct) ==
    CHOOSE t \in 0..n : 100 * t >= pct * n /\ (t = 0 \/ 100 * (t - 1) < pct * n)

\* [n - t saturating at 0, n + t]
Around(n, t) == << IF n >= t THEN n - t ELSE 0, n + t >>

Covers(ranges, n) == \E i \in DOMAIN ranges : ranges[i][1] <= n /\ n <= ranges[i][2]

\* C29: add_sample(S) merges [S.size - t saturating at 0, S.size + t] with
\* t = ceil(5% of S.size) into size_ranges, and the same with
\* t = ceil(10% of the count) into line_count_ranges and word_count_ranges;
\* right afterwards S.size, S.line_count and S.word_count each lie in an
\* interval of their list and S.html_tag_count lies in html_tag_count_range.
C29_Tolerances ==
    [][\E S \in Samples :
          LET p  == wildcard_profile
              q  == wildcard_profile'
              sz == Around(S.size, CeilPercent(S.size, 5))
              ln == Around(S.line_count, CeilPercent(S.line_count, 10))
              wd == Around(S.word_count, CeilPercent(S.word_count, 10))
          IN  /\ MergedAsSpecified(p.size_ranges, sz[1], sz[2], q.size_ranges)
              /\ MergedAsSpecified(p.line_count_ranges, ln[1], ln[2], q.line_count_ranges)
              /\ MergedAsSpecified(p.word_count_ranges, wd[1], wd[2], q.word_count_ranges)
              /\ Covers(q.size_ranges, S.size)
              /\ Covers(q.line_count_ranges, S.line_count)
              /\ Covers(q.word_count_ranges, S.word_count)
              /\ IsSome(q.html_tag_count_range)
              /\ Unwrap(q.html_tag_count_range)[1] <= S.html_tag_count
              /\ S.html_tag_count <= Unwrap(q.html_tag_count_range)[2]
              /\ S.sha256 \in q.sha256_hashes]_vars

C29_Witness ==
    /\ probe_idx > 2
    /\ wildcard_profile.size_ranges = << <<45, 51>>, <<38, 42>> >>
    /\ wildcard_profile.line_count_ranges = << <<1, 3>> >>
    /\ wildcard_profile.word_count_ranges = << <<5, 7>> >>
    /\ wildcard_profile.html_tag_count_range = Some(<<2, 2>>)

\* the samples a probe that succeeds can add
ProbeSamples ==
    { from_response(r.body, r.status, r.headers) : r \in ProbeResponses }

\* the profiles that n probes can build: each probe fails, or its sample is
\* added to the profile built by the probes before it
RECURSIVE ProfilesAfter(_)
ProfilesAfter(n) ==
    IF n = 0 THEN {WildcardProfile_new}
    ELSE LET before == ProfilesAfter(n - 1)
         IN  before \cup { add_sample(p, S) : p \in before, S \in ProbeSamples }

BuiltProfiles == [n \in 0..Len(test_paths) |-> ProfilesAfter(n)]

\* C30: build_wildcard_profile makes exactly four probes, one after the
\* other in the order of test_paths; a probe that fails (the request, or the
\* read of the body) leaves the profile as it is and the next probe follows,
\* a probe that succeeds adds its sample, so the profile the scan starts
\* with aggregates exactly the samples of the probes that succeeded.
C30_FourProbes ==
    /\ [](/\ Len(test_paths) = 4
          /\ probe_idx \in 1..5
          /\ pc_main # "probe" => probe_idx = 5
          /\ wildcard_profile \in BuiltProfiles[probe_idx - 1])
    /\ [][/\ probe_idx' # probe_idx =>
                /\ pc_main = "probe" /\ pc_main' = "probe"
                /\ probe_idx' = probe_idx + 1
                /\ \/ wildcard_profile' = wildcard_profile
                   \/ \E S \in ProbeSamples :
                         wildcard_profile' = add_sample(wildcard_profile, S)
          /\ wildcard_profile' # wildcard_profile => probe_idx' = probe_idx + 1]_vars

C30_Witness ==
    /\ pc_main = "probe"
    /\ probe_idx = 4
    /\ wildcard_profile = WildcardProfile_new
    /\ ENABLED Probe

(***************************************************************************)
(* Properties of the shared counters                                       *)
(***************************************************************************)
\* the fetch_add calls on found_count (error_count) that the threads of S
\* have completed
RECURSIVE FoundCalls(_)
FoundCalls(S) ==
    IF S = {} THEN 0
    ELSE LET t == CHOOSE x \in S : TRUE
         IN  attempt[t] + (IF pc[t] = "error" THEN 1 ELSE 0) + FoundCalls(S \ {t})

RECURSIVE ErrorCalls(_)
ErrorCalls(S) ==
    IF S = {} THEN 0
    ELSE LET t == CHOOSE x \in S : TRUE
         IN  attempt[t] + ErrorCalls(S \ {t})

\* C31: concurrent increments of the counters are never lost and a counter
\* never decreases: in every interleaving each counter is the number of
\* fetch_add calls completed on it, and when the N threads have each done
\* their K increments and were joined, the loaded value is N * K.
C31_NoLostIncrement ==
    /\ [](/\ found_count = FoundCalls(Threads)
          /\ error_count = ErrorCalls(Threads)
          /\ pc_main = "joined" =>
                /\ Unwrap(summary).final_found = NumThreads * MaxIncrements
                /\ Unwrap(summary).final_errors = NumThreads * MaxIncrements)
    /\ [][/\ found_count' >= found_count
          /\ error_count' >= error_count
          /\ filtered_count' >= filtered_count]_vars

\* every thread has done its increments and was joined, the counters were
\* loaded
C31_Witness ==
    /\ pc_main = "joined"
    /\ \A t \in Threads : pc[t] = "ended" /\ attempt[t] = MaxIncrements
    /\ IsSome(summary)
    /\ found_count > 0 /\ error_count > 0

(***************************************************************************)
(* Properties of the retry loop and of global_delay                        *)
(***************************************************************************)
\* the step ends the request of worker w: its send failed, or the body of
\* its response was read and the status matched
EndsRequest(w) ==
    \/ pc[w] = "in_flight" /\ pc'[w] \notin {"in_flight", "body"}
    \/ Classifies(w)

\* C32: Error(word, "Max retries exceeded") is never returned: whatever the
\* responses and transport failures, the attempt with index retries ends in
\* a return inside the loop, so no worker goes on to an attempt after it
\* and the statement after the loop is not reached.
C32_MaxRetriesUnreachable ==
    /\ [](\A w \in Words :
             /\ ~HasResult(w, Error(w, "Max retries exceeded"))
             /\ attempt[w] <= config.retries)
    /\ [][\A w \in Words :
             attempt[w] = config.retries /\ EndsRequest(w) => Returns(w)]_vars

\* a last attempt that is not the first got a 429 and returned, and another
\* word's last attempt failed with a retryable transport error
C32_Witness ==
    \E w \in Words, v \in Words :
        /\ config.retries >= 1
        /\ pc[w] = "returned"
        /\ attempt[w] = config.retries
        /\ result[w] = Some(Error(w, "Rate limited"))
        /\ HasResult(v, Error(v, "operation timed out"))
        /\ sent[v] = config.retries + 1

\* C33: the counter update and the push to the results vector happen
\* together under the results mutex: whenever the mutex is free, found_count
\* is the number of Success entries of the vector, error_count the number of
\* Error entries and filtered_count the number of Filtered entries.
C33_CountersMatchResults ==
    results_lock = 0 =>
        /\ found_count = KindCount("Success")
        /\ error_count = KindCount("Error")
        /\ filtered_count = KindCount("Filtered")

\* the mutex is free, a Filtered result was counted and pushed, and another
\* worker has returned a Success that it has not recorded yet
C33_Witness ==
    \E w \in Words :
        /\ results_lock = 0
        /\ pc[w] = "returned"
        /\ Unwrap(result[w]).kind = "Success"
        /\ KindCount("Filtered") = 1
        /\ filtered_count = 1
        /\ found_count = 0

\* C34: global_delay changes only by a reset to 0 when a 2xx response is
\* matched or by +500 when a 429 response is; a 5xx response, any other
\* status, a transport failure, a cancellation return and every step of the
\* driver leave it unchanged.  So global_delay is always a multiple of 500
\* and at most 500 times the number of 429 responses since the last 2xx.
C34_GlobalDelayFrame ==
    /\ [](/\ global_delay % 500 = 0
          /\ global_delay <= 500 * rl_since_2xx)
    /\ [][/\ global_delay' # global_delay =>
                \E w \in Words :
                    /\ Classifies(w)
                    /\ \/ /\ Is2xx(Unwrap(response[w]).status)
                          /\ global_delay' = 0
                       \/ /\ Unwrap(response[w]).status = 429
                          /\ global_delay' = global_delay + 500
          /\ \A w \in Words :
                Classifies(w) /\ ~Is2xx(Unwrap(response[w]).status)
                              /\ Unwrap(response[w]).status # 429
                    => global_delay' = global_delay]_vars

\* global_delay was raised twice, and a worker is about to match a 503 on
\* an attempt that will be retried
C34_Witness ==
    \E w \in Words :
        /\ global_delay = 1000
        /\ rl_since_2xx = 2
        /\ pc[w] = "body"
        /\ Unwrap(response[w]).status = 503
        /\ attempt[w] < config.retries

(***************************************************************************)
(* Properties of a scan that is being stopped                              *)
(***************************************************************************)
StoppedByUser(w) == Error(w, "Scan stopped by user")

\* C35: cancellation is observed only at the start of an attempt.  A worker
\* that sleeps before its request, has its request in flight or is reading
\* the body when should_stop is set goes on as if it were not: the request
\* is sent, the response is classified as usual, and a 2xx response is
\* returned as Success or Filtered and counted as such, not as Error.
C35_StopOnlyAtAttemptStart ==
    [][\A w \in Words :
          /\ Returns(w) /\ ReturnedResult(w) = StoppedByUser(w)
                => should_stop /\ pc[w] \in {"acquire", "backoff"}
          /\ should_stop /\ pc[w] = "pre_sleep" /\ pc'[w] # pc[w]
                => pc'[w] = "in_flight" /\ sent'[w] = sent[w] + 1
          /\ should_stop /\ Classifies(w) /\ Is2xx(Unwrap(response[w]).status)
                => /\ Returns(w)
                   /\ ReturnedResult(w).kind \in {"Success", "Filtered"}
          /\ should_stop /\ pc[w] = "locked" /\ pc'[w] = "done"
                      /\ Unwrap(result[w]).kind \in {"Success", "Filtered"}
                => /\ error_count' = error_count
                   /\ found_count' + filtered_count'
                         = found_count + filtered_count + 1
                   /\ found_count' = found_count + 1
                         <=> Unwrap(result[w]).kind = "Success"]_vars

\* should_stop was set while the request of w was in flight: another word
\* was stopped before its first request, and w now holds a 2xx response
C35_Witness ==
    \E w \in Words, v \in Words :
        /\ should_stop
        /\ pc[w] = "body"
        /\ Is2xx(Unwrap(response[w]).status)
        /\ HasResult(v, StoppedByUser(v))
        /\ sent[v] = 0

(***************************************************************************)
(* Properties of wildcard detection during the scan                        *)
(***************************************************************************)
\* the DetailedResponse worker w builds when the body it read is text
DetailOf(w, text) ==
    LET r == Unwrap(response[w])
    IN  DetailedResponse(w, r.status, r.content_length, r.response_time,
                         WordCountOf(text, config))

\* what the read of the body of w may give: the body, or "" when it fails
TextsOf(w) == { Unwrap(response[w]).body, "" }

\* worker w matches a non-2xx status in this step
ClassifiesNon2xx(w) == Classifies(w) /\ ~Is2xx(Unwrap(response[w]).status)

\* C36 as stated: wildcard detection is applied to 2xx responses only, so
\* with detect_wildcards enabled and no user filter matching, a response
\* with a non-2xx status is returned as NotFound.
C36_WildcardOn2xxOnly_AsStated ==
    [][\A w \in Words :
          /\ ClassifiesNon2xx(w)
          /\ config.detect_wildcards
          /\ \A text \in TextsOf(w) :
                ~should_filter_response(DetailOf(w, text), config)
          => /\ Returns(w)
             /\ ReturnedResult(w).kind = "NotFound"]_vars

\* C36 amended: for a non-2xx status the profile is not consulted: the
\* outcome is the one an empty profile gives.  With detect_wildcards
\* enabled and no user filter matching, a non-2xx response that ends the
\* loop is returned as NotFound, or as Error "Rate limited" when it is a
\* 429, and never as Filtered; a 429 or 5xx with attempts left is retried.
C36_WildcardOn2xxOnly ==
    [][\A w \in Words :
          ClassifiesNon2xx(w) =>
            /\ \E text \in TextsOf(w) :
                  LET c == ClassifyResponse(attempt[w], DetailOf(w, text), text,
                                            Unwrap(response[w]).headers, config,
                                            WildcardProfile_new)
                  IN  IF c.kind = "Retry"
                        THEN pc'[w] = "backoff" /\ result'[w] = None
                        ELSE Returns(w) /\ ReturnedResult(w) = c
            /\ Returns(w) =>
                  /\ ReturnedResult(w).kind \in {"NotFound", "Filtered", "Error"}
                  /\ ReturnedResult(w).kind = "Error"
                        <=> Unwrap(response[w]).status = 429
                  /\ ReturnedResult(w).kind = "Filtered" =>
                        should_filter_response(
                            Unwrap(ReturnedResult(w).detail), config)
            /\ ~Returns(w) =>
                  /\ attempt[w] < config.retries
                  /\ \/ Unwrap(response[w]).status = 429
                     \/ Is5xx(Unwrap(response[w]).status)]_vars

\* a 404 whose page is the one the probes got, read in full, was returned
\* as NotFound with detect_wildcards enabled, though the profile classifies
\* its sample as wildcard
C36_Witness ==
    \E w \in Words :
        /\ config.detect_wildcards
        /\ pc[w] = "returned"
        /\ Unwrap(result[w]).kind = "NotFound"
        /\ Unwrap(Unwrap(result[w]).detail).status = 404
        /\ Unwrap(Unwrap(result[w]).detail).word_count
              = Some(split_whitespace_count(SoftNotFoundBody))
        /\ is_likely_wildcard(wildcard_profile,
                              from_response(SoftNotFoundBody, 404, HtmlHeaders))

\* C37: with an empty profile (no add_sample was applied, as when all four
\* probes failed) is_likely_wildcard is false for every sample of every
\* status, so a scan with detect_wildcards enabled filters nothing on
\* wildcard grounds: whatever it returns as Filtered matches a user filter.
C37_EmptyProfile ==
    /\ [](wildcard_profile = WildcardProfile_new =>
             \A sample \in QuerySamples :
                 ~is_likely_wildcard(wildcard_profile, sample))
    /\ [][\A w \in Words :
             /\ wildcard_profile = WildcardProfile_new
             /\ Classifies(w) /\ Returns(w)
             /\ ReturnedResult(w).kind = "Filtered"
             => should_filter_response(Unwrap(ReturnedResult(w).detail),
                                       config)]_vars

\* all four probes failed; with detect_wildcards enabled the page that the
\* target serves for every path, read in full, was returned as Success
C37_Witness ==
    \E w \in Words :
        /\ pc_main = "scan"
        /\ wildcard_profile = WildcardProfile_new
        /\ config.detect_wildcards
        /\ pc[w] = "returned"
        /\ Unwrap(result[w]).kind = "Success"
        /\ Unwrap(Unwrap(result[w]).detail).word_count
              = Some(split_whitespace_count(SoftNotFoundBody))

\* C38: a sample whose status is not 200 and is in common_status_codes is
\* classified as wildcard whatever its hash, title, error phrase, size and
\* counts; for a sample of status 200 the membership of its status in
\* common_status_codes has no effect on the result.
C38_StatusBonus ==
    IsSome(wildcard_verdict) =>
        LET v == Unwrap(wildcard_verdict)
        IN  /\ v.resp.status_code # 200
              /\ v.resp.status_code \in v.self.common_status_codes
              => v.value
            /\ v.resp.status_code = 200 =>
                 /\ v.value = is_likely_wildcard(
                                  [v.self EXCEPT !.common_status_codes = {}],
                                  v.resp)
                 /\ v.value = is_likely_wildcard(
                                  [v.self EXCEPT !.common_status_codes = @ \cup {200}],
                                  v.resp)

\* a 404 whose status the profile has seen and that matches nothing else
\* of the profile was classified as wildcard
C38_Witness ==
    /\ IsSome(wildcard_verdict)
    /\ LET v == Unwrap(wildcard_verdict)
       IN  /\ v.value
           /\ v.resp.status_code = 404
           /\ 404 \in v.self.common_status_codes
           /\ MatchedChecks(v.self, v.resp) \subseteq {"status"}

(***************************************************************************)
(* Properties of the word count                                            *)
(***************************************************************************)
\* the DetailedResponse values that the workers returned
ReturnedDetails ==
    { Unwrap(Unwrap(result[w]).detail) :
        w \in { v \in Words : IsSome(result[v]) /\ IsSome(Unwrap(result[v]).detail) } }
    \cup
    { Unwrap(all_results[i].detail) :
        i \in { j \in 1..Len(all_results) : IsSome(all_results[j].detail) } }

\* C39: whenever filter_words is configured the word_count of every
\* DetailedResponse built by the worker is known, so the word-count clause
\* of the filter predicate is never skipped: a response returned as Success
\* or NotFound has its word count inside the limits.  word_count is unknown
\* only when neither filter_words nor show_content_length is set.
C39_WordCountKnown ==
    /\ \A d \in ReturnedDetails :
          /\ IsSome(config.filter_words) => IsSome(d.word_count)
          /\ d.word_count = None
                <=> ~config.show_content_length /\ config.filter_words = None
    /\ \A w \in Words :
          /\ IsSome(config.filter_words)
          /\ IsSome(result[w])
          /\ Unwrap(result[w]).kind \in {"Success", "NotFound"}
          => LET d == Unwrap(Unwrap(result[w]).detail)
             IN  /\ Unwrap(d.word_count) >= Unwrap(config.filter_words)[1]
                 /\ Unwrap(d.word_count) <= Unwrap(config.filter_words)[2]

\* filter_words is set and show_content_length is not; the body of a 200
\* could not be read, its word count is 0 and that alone filtered it
C39_Witness ==
    \E w \in Words :
        /\ IsSome(config.filter_words)
        /\ ~config.show_content_length
        /\ pc[w] = "returned"
        /\ Unwrap(result[w]).kind = "Filtered"
        /\ LET d == Unwrap(Unwrap(result[w]).detail)
           IN  /\ d.status = 200
               /\ d.word_count = Some(0)
               /\ ~should_filter_response([d EXCEPT !.word_count = None], config)

(***************************************************************************)
(* Properties of the semaphore                                             *)
(***************************************************************************)
\* the futures in progress that have not acquired their permit yet
Acquiring == {w \in Words : pc[w] = "acquire"}

\* C40: the driver polls at most threads worker futures at once and the
\* semaphore has threads permits, so an acquisition never has to wait:
\* whenever a worker is about to acquire, a permit is free, and there are
\* at least as many free permits as workers about to acquire.
C40_AcquireNeverWaits ==
    /\ \A w \in Words : pc[w] = "acquire" => permits > 0
    /\ Cardinality(Acquiring) <= permits
    /\ Cardinality(InProgress) <= config.threads

\* one worker holds a permit with its request in flight while the other
\* is about to acquire, and exactly one permit is free
C40_Witness ==
    \E w \in Words, v \in Words :
        /\ pc[w] = "in_flight"
        /\ holds_permit[w]
        /\ pc[v] = "acquire"
        /\ permits = 1
        /\ config.threads = 2

====
